---- MODULE Spec2Model ----
(***************************************************************************)
(* Authentication and authorization core of the nest-tutorial backend:     *)
(* refresh-token sessions (AuthService login / refreshToken / logout),     *)
(* the guard composer (AuthenticationGuard, AccessTokenGuard) and the      *)
(* verification codes (AuthService sendOTP / validateVerificationCode).    *)
(***************************************************************************)
EXTENDS Integers, Sequences, FiniteSets, TLC

VARIABLES
    now,                \* wall clock (new Date(), jwt clock), in abstract ticks
    users,              \* User table: id -> row
    roles,              \* Role table: id -> row, with its permission ids
    permissions,        \* Permission table: id -> row
    devices,            \* Device table: sequence, a row's id is its index
    refreshTokens,      \* RefreshToken table: set of rows
    verificationCodes,  \* VerificationCode table: set of rows
    nextUuid,           \* uuidv4(): the next fresh token identifier
    procs,              \* one record per caller: its AuthService call in flight
    lastCall,           \* the AuthService call that returned in the last step, and its result
    calls,              \* AuthService calls started so far
    faults,             \* storage failures injected so far
    returned,           \* history: refresh tokens handed to some caller
    rotatedBy,          \* history: <<T, T2>>: a refreshToken call presenting T returned T2
    loggedOut,          \* history: the refresh tokens a logout call succeeded with
    guard,              \* the AuthenticationGuard run of the current request
    otp                 \* the last sendOTP / validateVerificationCode call, and history:
                        \* the sendOTP calls so far, the code last stored for each
                        \* (email, type), the codes a later sendOTP replaced, the
                        \* register / forgotPassword calls whose user write was
                        \* applied, the codes a successful call presented

vars == <<now, users, roles, permissions, devices, refreshTokens, verificationCodes,
          nextUuid, procs, lastCall, calls, faults, returned, rotatedBy, loggedOut, guard, otp>>

----------------------------------------------------------------------------
(* Bounds of the model *)

MaxCalls == 3       \* AuthService calls started in one run
MaxTime == 1        \* clock ticks in one run
MaxFaults == 1      \* writes the storage layer rejects in one run

Procs == {1, 2}                 \* slots of calls in flight
UserAgents == {"ua1"}
Ips == {"ip1"}

----------------------------------------------------------------------------
(* Configuration (envConfig) *)

AccessTokenSecret == "ACCESS_TOKEN_SECRET"
RefreshTokenSecret == "REFRESH_TOKEN_SECRET"
AccessTokenExpiration == 1
RefreshTokenExpiration == 1
PREFIX_URL == <<"/", "api", "/", "v1">>

----------------------------------------------------------------------------
(* Errors *)

HttpTypes == {"UnauthorizedException", "ForbiddenException", "UnprocessableEntityException",
              "ConflictException"}

NoError == [type |-> "none", code |-> ""]
UnauthorizedException(message) == [type |-> "UnauthorizedException", code |-> message]
ForbiddenException(message) == [type |-> "ForbiddenException", code |-> message]
PrismaClientKnownRequestError(code) == [type |-> "PrismaClientKnownRequestError", code |-> code]
TypeError == [type |-> "TypeError", code |-> ""]

RefreshTokenRevokedException == UnauthorizedException("Error.RefreshTokenRevoked")
EmailNotExistsException == [type |-> "UnprocessableEntityException", code |-> "Error.EmailNotExists"]
PasswordIncorrectException == [type |-> "UnprocessableEntityException", code |-> "Error.PasswordIncorrect"]
InvalidTOTPAndCodeException == [type |-> "UnprocessableEntityException", code |-> "Error.InvalidTOTPAndCode"]
InvalidTOTPException == [type |-> "UnprocessableEntityException", code |-> "Error.InvalidTOTP"]
InvalidOTPException == [type |-> "UnprocessableEntityException", code |-> "Error.InvalidOTP"]
InvalidOTPExpiredExcepton == [type |-> "UnprocessableEntityException", code |-> "Error.InvalidOTPExpired"]
EmailAlreadyExistsException == [type |-> "ConflictException", code |-> "Error.EmailAlreadyExists"]
FailedToSendOTPException == [type |-> "UnprocessableEntityException", code |-> "Error.FailedToSendOTP"]

isNotFoundPrismaError(error) ==
    error.type = "PrismaClientKnownRequestError" /\ error.code = "P2025"

isUniqueConstraintPrismaError(error) ==
    error.type = "PrismaClientKnownRequestError" /\ error.code = "P2002"

----------------------------------------------------------------------------
(* TokenService *)

NoToken == [secret |-> "none"]
ForgedToken == [secret |-> "forged"]

signAccessToken(payload, uuid) ==
    [secret |-> AccessTokenSecret, uuid |-> uuid, userId |-> payload.userId,
     deviceId |-> payload.deviceId, roleId |-> payload.roleId,
     roleName |-> payload.roleName, exp |-> now + AccessTokenExpiration]

signRefreshToken(payload, uuid) ==
    [secret |-> RefreshTokenSecret, uuid |-> uuid, userId |-> payload.userId,
     exp |-> now + RefreshTokenExpiration]

\* verification that does not check which secret signed the token
verifyRefreshToken_AnySecret(token) ==
    IF token.secret \notin {AccessTokenSecret, RefreshTokenSecret}
    THEN UnauthorizedException("Invalid token")
    ELSE IF now >= token.exp THEN UnauthorizedException("Token has expired")
    ELSE NoError

\* mutant: an access token is refused once its device was marked inactive
verifyAccessToken_DeviceActive(token) ==
    IF token.secret # AccessTokenSecret THEN UnauthorizedException("Invalid token")
    ELSE IF now >= token.exp THEN UnauthorizedException("Token has expired")
    ELSE IF token.deviceId \in DOMAIN devices /\ ~devices[token.deviceId].isActive
    THEN UnauthorizedException("Invalid token")
    ELSE NoError

\* jwtService.verifyAsync: the signature first, then the expiry (now >= exp is expired)
verifyAccessToken(token) ==
    IF token.secret # AccessTokenSecret THEN UnauthorizedException("Invalid token")
    ELSE IF now >= token.exp THEN UnauthorizedException("Token has expired")
    ELSE NoError

verifyRefreshToken(token) ==
    IF token.secret # RefreshTokenSecret THEN UnauthorizedException("Invalid token")
    ELSE IF now >= token.exp THEN UnauthorizedException("Token has expired")
    ELSE NoError

----------------------------------------------------------------------------
(* TwoFactorAuthService *)

TotpPeriod == 1
NoTotp == <<>>

\* OTPAuth.TOTP.generate at a time-step counter: a code is determined by (secret, counter)
TOTPGenerate(secret, counter) == <<secret, counter>>

\* validation of the current step only
verifyTOTP_NoWindow(token, secret) ==
    token = TOTPGenerate(secret, now \div TotpPeriod)

\* totp.validate({ token, window: 1 }) !== null
verifyTOTP(token, secret) ==
    \E delta \in -1..1 : token = TOTPGenerate(secret, (now \div TotpPeriod) + delta)

----------------------------------------------------------------------------
(* Tables as the seed script and registration leave them *)

NoCode == ""
NoSecret == ""

InitUsers ==
    [id \in {1, 2} |->
        IF id = 1
        THEN [email |-> "a@x", password |-> "pw1", roleId |-> 1, totpSecret |-> NoSecret]
        ELSE [email |-> "b@x", password |-> "pw2", roleId |-> 2, totpSecret |-> "S2"]]

Emails == {"a@x", "b@x", "nobody@x"}
Passwords == {"pw1", "pw2"}

NoDate == -1

InitPermissions ==
    [id \in {1, 2} |->
        IF id = 1
        THEN [path |-> <<"/", "users">>, method |-> "GET", deletedAt |-> NoDate]
        ELSE [path |-> <<"/", "users">>, method |-> "POST", deletedAt |-> NoDate]]

InitRoles ==
    [id \in {1, 2} |->
        IF id = 1
        THEN [name |-> "ADMIN", deletedAt |-> NoDate, permissions |-> {1, 2}]
        ELSE [name |-> "CLIENT", deletedAt |-> NoDate, permissions |-> {1}]]

----------------------------------------------------------------------------
(* AuthRepository / SharedUserRepository *)

NoRow == [token |-> NoToken]

\* prismaService.user.findUnique({ where: { email } }): the id, 0 when there is none
findUniqueUser(email) ==
    IF \E id \in DOMAIN users : users[id].email = email
    THEN CHOOSE id \in DOMAIN users : users[id].email = email
    ELSE 0

\* prismaService.refreshToken.findUnique({ where: { token } })
findUniqueRefreshTokenIncludeUserRole(token) ==
    IF \E r \in refreshTokens : r.token = token
    THEN CHOOSE r \in refreshTokens : r.token = token
    ELSE NoRow

\* prismaService.refreshToken.create({ data })
createRefreshToken(table, data) == table \cup {data}

\* mutant: the row is kept (a soft delete)
deleteRefreshToken_Kept(table, token) == table

\* prismaService.refreshToken.delete({ where: { token } }): the table without the row
deleteRefreshToken(table, token) == {r \in table : r.token # token}

\* prismaService.device.create({ data }): isActive defaults to true, lastActive to now
createDevice(data) ==
    Append(devices, [userId |-> data.userId, userAgent |-> data.userAgent, ip |-> data.ip,
                     lastActive |-> now, isActive |-> TRUE])

\* prismaService.device.update({ where: { id }, data }) for the refresh metadata
udpateDeviceMeta(deviceId, userAgent, ip) ==
    [devices EXCEPT ![deviceId] = [@ EXCEPT !.userAgent = userAgent, !.ip = ip,
                                             !.lastActive = now]]

\* mutant: every device of the same user is marked inactive
udpateDeviceInactive_EveryDeviceOfUser(deviceId) ==
    [d \in DOMAIN devices |->
        IF devices[d].userId = devices[deviceId].userId
        THEN [devices[d] EXCEPT !.isActive = FALSE] ELSE devices[d]]

\* prismaService.device.update({ where: { id }, data: { isActive: false } })
udpateDeviceInactive(deviceId) ==
    [devices EXCEPT ![deviceId] = [@ EXCEPT !.isActive = FALSE]]

----------------------------------------------------------------------------
(* AuthService: the calls in flight *)

NoTokens == [accessToken |-> NoToken, refreshToken |-> NoToken]

RotationWrites == {"udpateDevice", "deleteRefreshToken", "createRefreshToken"}

Idle ==
    [pc |-> "idle", op |-> "none", tok |-> NoToken, userAgent |-> "", ip |-> "",
     dev |-> 0, pending |-> {}, failed |-> {}, error |-> NoError, newTokens |-> NoTokens,
     afterRotation |-> FALSE, afterLogout |-> FALSE, rowGone |-> FALSE]

NoCall ==
    [op |-> "none", tok |-> NoToken, verified |-> FALSE, res |-> NoError, out |-> NoTokens,
     afterRotation |-> FALSE, afterLogout |-> FALSE, rowGone |-> FALSE, touched |-> {}]

\* the call of caller p returns after its token verified: its result, the token it
\* presented and the devices it updated
Return(p, error, tokens, touched) ==
    [op |-> procs[p].op, tok |-> procs[p].tok, verified |-> TRUE, res |-> error,
     out |-> tokens,
     afterRotation |-> procs[p].afterRotation, afterLogout |-> procs[p].afterLogout,
     rowGone |-> procs[p].rowGone,
     touched |-> touched]

\* callers are anonymous: a new call takes the first free slot
CanStart(p) ==
    /\ calls < MaxCalls
    /\ procs[p].pc = "idle"
    /\ \A q \in Procs : q < p => procs[q].pc # "idle"

\* the refresh tokens a caller can present: one it was handed, or one it made up
Presentable == returned \cup {ForgedToken}

sessionVars == <<devices, refreshTokens, nextUuid, procs, calls, faults, returned, rotatedBy, loggedOut>>
rbacVars == <<users, roles, permissions>>
otherVars == <<verificationCodes, guard, otp>>

----------------------------------------------------------------------------
(* AuthService.validateVerificationCode *)

NoVerificationCode == [email |-> "", code |-> NoCode, type |-> "", expiresAt |-> NoDate]

\* prismaService.verificationCode.findFirst({ where: { email, code, type } })
findVerificationCodeByEmailAndType(email, code, type) ==
    IF \E v \in verificationCodes : v.email = email /\ v.code = code /\ v.type = type
    THEN CHOOSE v \in verificationCodes : v.email = email /\ v.code = code /\ v.type = type
    ELSE NoVerificationCode

validateVerificationCode(email, code, type) ==
    LET verifycationCode == findVerificationCodeByEmailAndType(email, code, type)
    IN  IF verifycationCode = NoVerificationCode THEN InvalidOTPException
        ELSE IF verifycationCode.expiresAt < now THEN InvalidOTPExpiredExcepton
        ELSE NoError

----------------------------------------------------------------------------
(* AuthService.generateAccessAndRefreshToken *)

\* the pair signed for a payload with the fresh uuid
signTokens(payload, uuid) ==
    [accessToken |-> signAccessToken(payload, uuid),
     refreshToken |-> signRefreshToken(payload, uuid)]

\* the row is stamped with the time of the write, not with the token's expiry
refreshTokenRow_ExpiresAtWrite(tokens, userId, deviceId) ==
    [token |-> tokens.refreshToken, userId |-> userId, deviceId |-> deviceId,
     expiresAt |-> now]

\* the RefreshToken row persisted for a signed pair: expiresAt is the token's own exp
refreshTokenRow(tokens, userId, deviceId) ==
    [token |-> tokens.refreshToken, userId |-> userId, deviceId |-> deviceId,
     expiresAt |-> tokens.refreshToken.exp]

----------------------------------------------------------------------------
(* AuthService.login *)

\* login without the check that a factor was supplied
loginChecks_NoFactorRequired(email, password, totpCode, code) ==
    LET id == findUniqueUser(email)
    IN  IF id = 0 THEN EmailNotExistsException
        ELSE IF users[id].password # password THEN PasswordIncorrectException
        ELSE IF users[id].totpSecret = NoSecret THEN NoError
        ELSE IF totpCode # NoTotp
             THEN (IF verifyTOTP(totpCode, users[id].totpSecret)
                   THEN NoError ELSE InvalidTOTPException)
        ELSE validateVerificationCode(email, code, "LOGIN")

\* the checks of login before it creates the device: the error thrown, or NoError
loginChecks(email, password, totpCode, code) ==
    LET id == findUniqueUser(email)
    IN  IF id = 0 THEN EmailNotExistsException
        ELSE IF users[id].password # password THEN PasswordIncorrectException
        ELSE IF users[id].totpSecret = NoSecret THEN NoError
        ELSE IF code = NoCode /\ totpCode = NoTotp THEN InvalidTOTPAndCodeException
        ELSE IF totpCode # NoTotp
             THEN (IF verifyTOTP(totpCode, users[id].totpSecret)
                   THEN NoError ELSE InvalidTOTPException)
        ELSE validateVerificationCode(email, code, "LOGIN")

\* the login call returns: its body, its result and the tokens it hands out
LoginReturn(email, password, totpCode, code, error, tokens) ==
    [op |-> "login", tok |-> NoToken, verified |-> FALSE, res |-> error, out |-> tokens,
     afterRotation |-> FALSE, rowGone |-> FALSE, touched |-> {},
     email |-> email, password |-> password, totpCode |-> totpCode, code |-> code]

Login(p, email, password, totpCode, code, userAgent, ip) ==
    /\ CanStart(p)
    /\ LET error == loginChecks(email, password, totpCode, code)
           id == findUniqueUser(email)
       IN  IF error # NoError
           THEN /\ lastCall' = LoginReturn(email, password, totpCode, code, error,
                                           NoTokens)
                /\ UNCHANGED <<devices, refreshTokens, nextUuid, returned>>
           ELSE /\ LET deviceId == Len(devices) + 1
                       tokens == signTokens([userId |-> id, deviceId |-> deviceId,
                                             roleId |-> users[id].roleId,
                                             roleName |-> roles[users[id].roleId].name],
                                            nextUuid)
                   IN  /\ devices' = createDevice([userId |-> id, userAgent |-> userAgent,
                                                   ip |-> ip])
                       /\ refreshTokens' = createRefreshToken(refreshTokens,
                                               refreshTokenRow(tokens, id, deviceId))
                       /\ nextUuid' = nextUuid + 1
                       /\ returned' = returned \cup {tokens.refreshToken}
                       /\ lastCall' = LoginReturn(email, password, totpCode, code,
                                                  NoError, tokens)
    /\ calls' = calls + 1
    /\ UNCHANGED <<now, procs, faults, rotatedBy, loggedOut>>
    /\ UNCHANGED rbacVars
    /\ UNCHANGED otherVars

----------------------------------------------------------------------------
(* AuthService.refreshToken *)

\* a write the storage layer rejects for a reason of its own (connection lost, timeout)
StorageFailure == [type |-> "PrismaClientUnknownRequestError", code |-> ""]

\* catch (error): an UnauthorizedException is rethrown, anything else becomes a new one
refreshTokenCatch(error) ==
    IF error.type = "UnauthorizedException" THEN error
    ELSE UnauthorizedException("Unauthorized")

\* mutant: the role the user had when the tables were set up
includeUserRole_AsFirstStored(refreshTokenInDb) == InitUsers[refreshTokenInDb.userId].roleId

\* include: { user: { include: { role: true } } }: the roleId of the row's user as the
\* User table has it when the row is read
includeUserRole(refreshTokenInDb) == users[refreshTokenInDb.userId].roleId

\* 1. verifyRefreshToken(refreshToken)
RefreshTokenVerify(p, refreshToken, userAgent, ip) ==
    /\ CanStart(p)
    /\ LET error == verifyRefreshToken(refreshToken)
           call == [Idle EXCEPT !.op = "refreshToken", !.tok = refreshToken,
                                !.afterRotation = \E x \in rotatedBy : x[1] = refreshToken,
                                !.afterLogout = refreshToken \in loggedOut]
       IN  IF error # NoError
           THEN /\ lastCall' = [NoCall EXCEPT !.op = call.op, !.tok = call.tok,
                                              !.afterRotation = call.afterRotation,
                                              !.afterLogout = call.afterLogout,
                                              !.res = refreshTokenCatch(error)]
                /\ UNCHANGED procs
           ELSE /\ procs' = [procs EXCEPT ![p] =
                        [call EXCEPT !.pc = "lookup", !.userAgent = userAgent, !.ip = ip]]
                /\ lastCall' = NoCall
    /\ calls' = calls + 1
    /\ UNCHANGED <<now, devices, refreshTokens, nextUuid, faults, returned, rotatedBy, loggedOut>>
    /\ UNCHANGED rbacVars
    /\ UNCHANGED otherVars

\* 2. findUniqueRefreshTokenIncludeUserRole; then the three promises are started: the
\*    new pair is signed at once, the three writes are left to the storage layer
RefreshTokenLookup(p) ==
    /\ procs[p].pc = "lookup"
    /\ LET refreshTokenInDb == findUniqueRefreshTokenIncludeUserRole(procs[p].tok)
       IN  IF refreshTokenInDb = NoRow
           THEN /\ lastCall' = Return(p, refreshTokenCatch(RefreshTokenRevokedException),
                                      NoTokens, {})
                /\ procs' = [procs EXCEPT ![p] = Idle]
                /\ UNCHANGED nextUuid
           ELSE /\ LET roleId == includeUserRole(refreshTokenInDb)
                       tokens == signTokens([userId |-> procs[p].tok.userId,
                                             deviceId |-> refreshTokenInDb.deviceId,
                                             roleId |-> roleId,
                                             roleName |-> roles[roleId].name],
                                            nextUuid)
                   IN  procs' = [procs EXCEPT ![p] =
                            [@ EXCEPT !.pc = "rotate", !.dev = refreshTokenInDb.deviceId,
                                      !.pending = RotationWrites, !.newTokens = tokens]]
                /\ nextUuid' = nextUuid + 1
                /\ lastCall' = NoCall
    /\ UNCHANGED <<now, calls, devices, refreshTokens, faults, returned, rotatedBy, loggedOut>>
    /\ UNCHANGED rbacVars
    /\ UNCHANGED otherVars

\* one of the three writes has been answered by the storage layer; Promise.all keeps
\* the first rejection
WriteAnswered(p, write, error) ==
    [procs EXCEPT ![p] =
        [@ EXCEPT !.pending = @ \ {write},
                  !.failed = IF error = NoError THEN @ ELSE @ \cup {write},
                  !.error = IF @ = NoError THEN error ELSE @]]

\* 3. udpateDevice(deviceId, { userAgent, ip, lastActive })
RefreshTokenUpdateDevice(p, stored) ==
    /\ procs[p].pc = "rotate"
    /\ "udpateDevice" \in procs[p].pending
    /\ IF stored
       THEN /\ devices' = udpateDeviceMeta(procs[p].dev, procs[p].userAgent, procs[p].ip)
            /\ procs' = WriteAnswered(p, "udpateDevice", NoError)
            /\ UNCHANGED faults
       ELSE /\ faults < MaxFaults
            /\ faults' = faults + 1
            /\ UNCHANGED devices
            /\ procs' = WriteAnswered(p, "udpateDevice", StorageFailure)
    /\ lastCall' = NoCall
    /\ UNCHANGED <<now, calls, refreshTokens, nextUuid, returned, rotatedBy, loggedOut>>
    /\ UNCHANGED rbacVars
    /\ UNCHANGED otherVars

\* 4. deleteRefreshToken(refreshToken): P2025 when the row is no longer there
RefreshTokenDelete(p, stored) ==
    /\ procs[p].pc = "rotate"
    /\ "deleteRefreshToken" \in procs[p].pending
    /\ IF findUniqueRefreshTokenIncludeUserRole(procs[p].tok) = NoRow
       THEN /\ UNCHANGED <<refreshTokens, faults>>
            /\ procs' = WriteAnswered(p, "deleteRefreshToken",
                                      PrismaClientKnownRequestError("P2025"))
       ELSE IF stored
       THEN /\ refreshTokens' = deleteRefreshToken(refreshTokens, procs[p].tok)
            /\ procs' = WriteAnswered(p, "deleteRefreshToken", NoError)
            /\ UNCHANGED faults
       ELSE /\ faults < MaxFaults
            /\ faults' = faults + 1
            /\ UNCHANGED refreshTokens
            /\ procs' = WriteAnswered(p, "deleteRefreshToken", StorageFailure)
    /\ lastCall' = NoCall
    /\ UNCHANGED <<now, calls, devices, nextUuid, returned, rotatedBy, loggedOut>>
    /\ UNCHANGED rbacVars
    /\ UNCHANGED otherVars

\* 5. generateAccessAndRefreshToken: createRefreshToken of the pair signed in step 2
RefreshTokenGenerate(p, stored) ==
    /\ procs[p].pc = "rotate"
    /\ "createRefreshToken" \in procs[p].pending
    /\ IF stored
       THEN /\ refreshTokens' = createRefreshToken(refreshTokens,
                    refreshTokenRow(procs[p].newTokens, procs[p].tok.userId, procs[p].dev))
            /\ procs' = WriteAnswered(p, "createRefreshToken", NoError)
            /\ UNCHANGED faults
       ELSE /\ faults < MaxFaults
            /\ faults' = faults + 1
            /\ UNCHANGED refreshTokens
            /\ procs' = WriteAnswered(p, "createRefreshToken", StorageFailure)
    /\ lastCall' = NoCall
    /\ UNCHANGED <<now, calls, devices, nextUuid, returned, rotatedBy, loggedOut>>
    /\ UNCHANGED rbacVars
    /\ UNCHANGED otherVars

\* mutant: the device update is not awaited
rotationSucceeded_UpdateNotAwaited(p) == procs[p].failed \ {"udpateDevice"} = {}

\* mutant: the old token's deletion is not awaited
rotationSucceeded_DeleteNotAwaited(p) == procs[p].failed \ {"deleteRefreshToken"} = {}

\* whether the awaited Promise.all of the three writes lets the call return its tokens
rotationSucceeded(p) == procs[p].failed = {}

\* await Promise.all([$updateDevice, $deleteRefreshToken, newTokens]); return tokens.
\* A rejected write rejects the whole; the caller is answered once all three are.
RefreshTokenReturn(p) ==
    /\ procs[p].pc = "rotate"
    /\ procs[p].pending = {}
    /\ LET touched == IF "udpateDevice" \in procs[p].failed THEN {} ELSE {procs[p].dev}
       IN  IF rotationSucceeded(p)
           THEN /\ lastCall' = Return(p, NoError, procs[p].newTokens, touched)
                /\ returned' = returned \cup {procs[p].newTokens.refreshToken}
                /\ rotatedBy' = rotatedBy \cup
                                    {<<procs[p].tok, procs[p].newTokens.refreshToken>>}
           ELSE /\ lastCall' = Return(p, refreshTokenCatch(procs[p].error), NoTokens, touched)
                /\ UNCHANGED <<returned, rotatedBy>>
    /\ procs' = [procs EXCEPT ![p] = Idle]
    /\ UNCHANGED <<now, calls, devices, refreshTokens, nextUuid, faults, loggedOut>>
    /\ UNCHANGED rbacVars
    /\ UNCHANGED otherVars

----------------------------------------------------------------------------
(* AuthService.logout *)

\* mutant: the not-found case is not recognised
logoutCatch_NoNotFound(error) ==
    IF error.type = "UnauthorizedException" THEN error
    ELSE UnauthorizedException("Unauthorized")

\* catch (error): Unauthorized rethrown, P2025 is RefreshTokenRevoked, else Unauthorized
logoutCatch(error) ==
    IF error.type = "UnauthorizedException" THEN error
    ELSE IF isNotFoundPrismaError(error) THEN RefreshTokenRevokedException
    ELSE UnauthorizedException("Unauthorized")

\* 1. verifyRefreshToken(refreshToken)
LogoutVerify(p, refreshToken) ==
    /\ CanStart(p)
    /\ LET error == verifyRefreshToken(refreshToken)
           call == [Idle EXCEPT !.op = "logout", !.tok = refreshToken,
                                !.rowGone = (refreshToken \in returned
                                    /\ findUniqueRefreshTokenIncludeUserRole(refreshToken) = NoRow)]
       IN  IF error # NoError
           THEN /\ lastCall' = [NoCall EXCEPT !.op = call.op, !.tok = call.tok,
                                              !.rowGone = call.rowGone,
                                              !.res = logoutCatch(error)]
                /\ UNCHANGED procs
           ELSE /\ procs' = [procs EXCEPT ![p] = [call EXCEPT !.pc = "logoutDelete"]]
                /\ lastCall' = NoCall
    /\ calls' = calls + 1
    /\ UNCHANGED <<now, devices, refreshTokens, nextUuid, faults, returned, rotatedBy, loggedOut>>
    /\ UNCHANGED rbacVars
    /\ UNCHANGED otherVars

\* 2. deleteRefreshToken(refreshToken): P2025 when the row is no longer there
LogoutDelete(p) ==
    /\ procs[p].pc = "logoutDelete"
    /\ LET row == findUniqueRefreshTokenIncludeUserRole(procs[p].tok)
       IN  IF row = NoRow
           THEN /\ lastCall' = Return(p, logoutCatch(PrismaClientKnownRequestError("P2025")),
                                      NoTokens, {})
                /\ procs' = [procs EXCEPT ![p] = Idle]
                /\ UNCHANGED refreshTokens
           ELSE /\ refreshTokens' = deleteRefreshToken(refreshTokens, procs[p].tok)
                /\ procs' = [procs EXCEPT ![p] =
                        [@ EXCEPT !.pc = "logoutDevice", !.dev = row.deviceId]]
                /\ lastCall' = NoCall
    /\ UNCHANGED <<now, calls, devices, nextUuid, faults, returned, rotatedBy, loggedOut>>
    /\ UNCHANGED rbacVars
    /\ UNCHANGED otherVars

\* 3. udpateDevice($deleteRefreshToken.deviceId, { isActive: false })
LogoutUpdateDevice(p) ==
    /\ procs[p].pc = "logoutDevice"
    /\ devices' = udpateDeviceInactive(procs[p].dev)
    /\ lastCall' = Return(p, NoError, NoTokens, {procs[p].dev})
    /\ loggedOut' = loggedOut \cup {procs[p].tok}
    /\ procs' = [procs EXCEPT ![p] = Idle]
    /\ UNCHANGED <<now, calls, refreshTokens, nextUuid, faults, returned, rotatedBy>>
    /\ UNCHANGED rbacVars
    /\ UNCHANGED otherVars

----------------------------------------------------------------------------
(* The clock *)

Tick ==
    /\ now < MaxTime
    /\ now' = now + 1
    /\ lastCall' = NoCall
    /\ UNCHANGED sessionVars
    /\ UNCHANGED rbacVars
    /\ UNCHANGED otherVars

----------------------------------------------------------------------------
(* Sessions: login, refreshToken and logout calls of concurrent callers *)

NoGuard == [pc |-> "idle"]
NoOtp == [op |-> "none", email |-> "", type |-> "", code |-> NoCode, res |-> NoError,
          at |-> 0, sent |-> 0, issued |-> {}, replaced |-> {}, effects |-> {},
          consumed |-> {}]

\* no second factor is presented in the session runs
TotpInputs == {NoTotp}
CodeInputs == {NoCode}

Init ==
    /\ now = 0
    /\ users = InitUsers
    /\ roles = InitRoles
    /\ permissions = InitPermissions
    /\ devices = <<>>
    /\ refreshTokens = {}
    /\ verificationCodes = {}
    /\ nextUuid = 1
    /\ procs = [p \in Procs |-> Idle]
    /\ lastCall = NoCall
    /\ calls = 0
    /\ faults = 0
    /\ returned = {}
    /\ rotatedBy = {}
    /\ loggedOut = {}
    /\ guard = NoGuard
    /\ otp = NoOtp

Next ==
    \/ \E p \in Procs, email \in Emails, password \in Passwords, totpCode \in TotpInputs,
          code \in CodeInputs, userAgent \in UserAgents, ip \in Ips :
            Login(p, email, password, totpCode, code, userAgent, ip)
    \/ \E p \in Procs, refreshToken \in Presentable, userAgent \in UserAgents, ip \in Ips :
            RefreshTokenVerify(p, refreshToken, userAgent, ip)
    \/ \E p \in Procs : RefreshTokenLookup(p)
    \/ \E p \in Procs, stored \in BOOLEAN : RefreshTokenUpdateDevice(p, stored)
    \/ \E p \in Procs, stored \in BOOLEAN : RefreshTokenDelete(p, stored)
    \/ \E p \in Procs, stored \in BOOLEAN : RefreshTokenGenerate(p, stored)
    \/ \E p \in Procs : RefreshTokenReturn(p)
    \/ \E p \in Procs, refreshToken \in Presentable : LogoutVerify(p, refreshToken)
    \/ \E p \in Procs : LogoutDelete(p)
    \/ \E p \in Procs : LogoutUpdateDevice(p)
    \/ Tick

Spec == Init /\ [][Next]_vars

----------------------------------------------------------------------------
(* Claims about sessions, checked under Spec *)

TokenExpired == UnauthorizedException("Token has expired")

\* the refreshToken call that has just returned was started after a refreshToken call
\* presenting the same token had returned a new pair
LaterRefreshOfRotated == lastCall.op = "refreshToken" /\ lastCall.afterRotation

\* C1 as stated: after a refreshToken call presenting T has returned a new pair, every
\* later refreshToken call presenting T fails with RefreshTokenRevoked and returns no
\* tokens.
C1_LaterRefreshRevoked ==
    LaterRefreshOfRotated =>
        lastCall.res = RefreshTokenRevokedException /\ lastCall.out = NoTokens

\* C1 amended: every later refreshToken call presenting T returns no tokens and fails
\* with an Unauthorized error: RefreshTokenRevoked when T was unexpired as the call
\* verified it, the "Token has expired" Unauthorized of the verification otherwise.
C1_LaterRefreshUnauthorized ==
    LaterRefreshOfRotated =>
        /\ lastCall.out = NoTokens
        /\ lastCall.res \in {RefreshTokenRevokedException, TokenExpired}
        /\ lastCall.verified <=> lastCall.res = RefreshTokenRevokedException
        /\ lastCall.res = TokenExpired => now >= lastCall.tok.exp

C1_Witness ==
    LaterRefreshOfRotated /\ lastCall.res = RefreshTokenRevokedException

\* C2: of the refreshToken calls presenting the same refresh token at most one returns
\* a token pair, whatever the interleaving and whichever rotation write fails.
C2_AtMostOnePairPerToken ==
    \A x \in rotatedBy, y \in rotatedBy : x[1] = y[1] => x = y

\* two calls raced on one token past the lookup; one returned a pair, the other has
\* just failed on its rejected delete
C2_Witness ==
    /\ lastCall.op = "refreshToken"
    /\ lastCall.verified
    /\ lastCall.res = UnauthorizedException("Unauthorized")
    /\ faults = 0
    /\ \E x \in rotatedBy : x[1] = lastCall.tok

\* the logout call that has just returned presented a validly signed, unexpired token
\* whose RefreshToken row was already deleted when the call began
LogoutOfDeleted == lastCall.op = "logout" /\ lastCall.verified /\ lastCall.rowGone

\* C3: a logout presenting a validly signed, unexpired refresh token whose row is
\* already deleted fails with RefreshTokenRevoked and updates no device.
C3_LogoutOfDeletedRevoked ==
    /\ [](LogoutOfDeleted =>
            lastCall.res = RefreshTokenRevokedException /\ lastCall.touched = {})
    /\ [][LogoutOfDeleted' => devices' = devices]_vars

C3_Witness ==
    LogoutOfDeleted /\ lastCall.res = RefreshTokenRevokedException

----------------------------------------------------------------------------
(* helper.ts: stripPrefix *)

startsWith(path, prefix) ==
    Len(path) >= Len(prefix) /\ SubSeq(path, 1, Len(prefix)) = prefix

\* mutant: the prefix is not stripped
stripPrefix_Kept(path) == path

stripPrefix(path) ==
    IF startsWith(path, PREFIX_URL)
    THEN SubSeq(path, Len(PREFIX_URL) + 1, Len(path))
    ELSE path

----------------------------------------------------------------------------
(* AccessTokenGuard *)

\* the Authorization header as split(' ') sees it: a sequence of words, <<>> when the
\* header is absent; a word is a scheme word, the empty string or a token
Word(w) == [word |-> w]
NoHeader == <<>>

\* request.headers.authorization?.split(' ')[1], NoToken when undefined or empty
extractTokenFromHeader(header) ==
    IF Len(header) >= 2 /\ header[2] # Word("") THEN header[2] ELSE NoToken

\* include: { permissions: { where: { deletedAt: null, path, method } } }
permissionsOfRole(roleId, path, method) ==
    {id \in roles[roleId].permissions :
        /\ permissions[id].deletedAt = NoDate
        /\ permissions[id].path = path
        /\ permissions[id].method = method}

\* role.findUniqueOrThrow({ where: { id: roleId, deletedAt: null } }) finds a row
roleFound(roleId) == roleId \in DOMAIN roles /\ roles[roleId].deletedAt = NoDate

\* mutant: a role that exists is enough
validateUserPermission_RoleOnly(decodedAccessToken, routePath, method) ==
    IF ~roleFound(decodedAccessToken.roleId) THEN ForbiddenException("Unauthorized")
    ELSE NoError

\* validateUserPermission: the error thrown, or NoError
validateUserPermission(decodedAccessToken, routePath, method) ==
    LET path == stripPrefix(routePath)
    IN  IF ~roleFound(decodedAccessToken.roleId) THEN ForbiddenException("Unauthorized")
        ELSE IF permissionsOfRole(decodedAccessToken.roleId, path, method) = {}
        THEN ForbiddenException("Unauthorized")
        ELSE NoError

----------------------------------------------------------------------------
(* AuthenticationGuard *)

AuthTypes == {"Bearer", "ApiKey", "None"}
ConditionGuard == {"and", "or"}

NoMeta == [authTypes |-> <<>>, condition |-> "none"]

\* mutant: None has no guard
authTypeGuardMap_NoNone == {"Bearer"}

\* authTypeGuardMap: the strategies that have a guard
authTypeGuardMap == {"Bearer", "None"}

\* mutant: an undeclared endpoint is public
getAuthTypeValue_DefaultNone(handlerMeta, classMeta) ==
    IF handlerMeta # NoMeta THEN handlerMeta
    ELSE IF classMeta # NoMeta THEN classMeta
    ELSE [authTypes |-> <<"None">>, condition |-> "and"]

\* reflector.getAllAndOverride(AUTH_TYPE_KEY, [handler, class]) ?? the default
getAuthTypeValue(handlerMeta, classMeta) ==
    IF handlerMeta # NoMeta THEN handlerMeta
    ELSE IF classMeta # NoMeta THEN classMeta
    ELSE [authTypes |-> <<"Bearer">>, condition |-> "and"]

\* what guard.canActivate(context) does: returns true, returns false, or throws
Pass == [ok |-> TRUE, error |-> NoError]
ReturnsFalse == [ok |-> FALSE, error |-> NoError]
Throws(error) == [ok |-> FALSE, error |-> error]
Pending == [ok |-> FALSE, error |-> [type |-> "pending", code |-> ""]]

\* mutant: whatever was thrown is taken for an HttpException
isHttpException_AnyError(error) == TRUE

isHttpException(error) == error.type \in HttpTypes

Finished(g, result) == [g EXCEPT !.pc = "done", !.result = result]
NextStrategy(g) == [g EXCEPT !.pc = "strategy", !.idx = @ + 1]

\* mutant: every strategy is evaluated, the last failure decides
handleAndCondition_NoAbort(g, outcome) ==
    LET error == IF outcome.ok THEN g.lastError
                 ELSE IF isHttpException(outcome.error) THEN outcome.error
                 ELSE UnauthorizedException("Unauthorized")
    IN  IF g.idx >= Len(g.authTypes)
        THEN Finished(g, IF error = NoError THEN Pass ELSE Throws(error))
        ELSE NextStrategy([g EXCEPT !.lastError = error])

\* handleAndCondition, one turn of its loop on the outcome of guards[idx]
handleAndCondition(g, outcome) ==
    IF outcome.ok
    THEN IF g.idx >= Len(g.authTypes) THEN Finished(g, Pass) ELSE NextStrategy(g)
    ELSE IF outcome.error = NoError
    THEN Finished(g, Throws(UnauthorizedException("Unauthorized")))
    ELSE IF isHttpException(outcome.error) THEN Finished(g, Throws(outcome.error))
    ELSE Finished(g, Throws(UnauthorizedException("Unauthorized")))

\* mutant: the first error is kept instead of the last
handleOrCondition_FirstError(g, outcome) ==
    IF outcome.ok THEN Finished(g, Pass)
    ELSE LET lastError == IF g.lastError # NoError THEN g.lastError ELSE outcome.error
         IN  IF g.idx >= Len(g.authTypes)
             THEN Finished(g, IF isHttpException(lastError) THEN Throws(lastError)
                              ELSE Throws(UnauthorizedException("Unauthorized")))
             ELSE NextStrategy([g EXCEPT !.lastError = lastError])

\* handleOrCondition, one turn of its loop on the outcome of guards[idx]
handleOrCondition(g, outcome) ==
    IF outcome.ok THEN Finished(g, Pass)
    ELSE LET lastError == IF outcome.error # NoError THEN outcome.error ELSE g.lastError
         IN  IF g.idx >= Len(g.authTypes)
             THEN Finished(g, IF isHttpException(lastError) THEN Throws(lastError)
                              ELSE Throws(UnauthorizedException("Unauthorized")))
             ELSE NextStrategy([g EXCEPT !.lastError = lastError])

\* the strategy guards[idx] has given its outcome
Advance(g, outcome) ==
    LET evaluated == [g EXCEPT !.outcomes = Append(@, outcome)]
    IN  IF g.condition = "and"
        THEN handleAndCondition(evaluated, outcome)
        ELSE handleOrCondition(evaluated, outcome)

sessionAll == <<now, devices, refreshTokens, nextUuid, procs, lastCall, calls, faults,
                returned, rotatedBy, loggedOut>>

\* canActivate: a request arrives at a route; the strategies are resolved. A run of
\* the guard keeps nothing from an earlier request, so a behaviour follows one request
GuardRequest(handlerMeta, classMeta, header, path, method) ==
    /\ guard.pc = "idle"
    /\ LET authTypeValue == getAuthTypeValue(handlerMeta, classMeta)
           g == [pc |-> "strategy", handlerMeta |-> handlerMeta, classMeta |-> classMeta,
                 header |-> header, path |-> path, method |-> method, user |-> NoToken,
                 authTypes |-> authTypeValue.authTypes,
                 condition |-> authTypeValue.condition,
                 idx |-> 1, lastError |-> NoError, outcomes |-> <<>>,
                 verifyCalls |-> 0, roleLookups |-> 0, result |-> Pending]
       IN  guard' =
             IF g.authTypes # <<>> THEN g
             ELSE IF g.condition = "and" THEN Finished(g, Pass)
             ELSE Finished(g, Throws(UnauthorizedException("Unauthorized")))
    /\ UNCHANGED sessionAll
    /\ UNCHANGED rbacVars
    /\ UNCHANGED <<verificationCodes, otp>>

\* guards[idx].canActivate(context) is called: a strategy without a guard throws a
\* TypeError, None returns true, Bearer extracts the token from the header
GuardStrategy ==
    /\ guard.pc = "strategy"
    /\ LET authType == guard.authTypes[guard.idx]
       IN  guard' =
             IF authType \notin authTypeGuardMap THEN Advance(guard, Throws(TypeError))
             ELSE IF authType = "None" THEN Advance(guard, Pass)
             ELSE IF extractTokenFromHeader(guard.header) = NoToken
             THEN Advance(guard,
                      Throws(UnauthorizedException("Access token is missing or malformed")))
             ELSE [guard EXCEPT !.pc = "verify"]
    /\ UNCHANGED sessionAll
    /\ UNCHANGED rbacVars
    /\ UNCHANGED <<verificationCodes, otp>>

\* extractAndValidateToken: verifyAccessToken, then the claims go on the request
GuardBearerVerify ==
    /\ guard.pc = "verify"
    /\ LET token == extractTokenFromHeader(guard.header)
           called == [guard EXCEPT !.verifyCalls = @ + 1]
       IN  guard' =
             IF verifyAccessToken(token) # NoError
             THEN Advance(called, Throws(UnauthorizedException("Invalid access token")))
             ELSE [called EXCEPT !.pc = "permission", !.user = token]
    /\ UNCHANGED sessionAll
    /\ UNCHANGED rbacVars
    /\ UNCHANGED <<verificationCodes, otp>>

\* validateUserPermission, then return true
GuardBearerPermission ==
    /\ guard.pc = "permission"
    /\ LET error == validateUserPermission(guard.user, guard.path, guard.method)
           looked == [guard EXCEPT !.roleLookups = @ + 1]
       IN  guard' = IF error # NoError THEN Advance(looked, Throws(error))
                    ELSE Advance(looked, Pass)
    /\ UNCHANGED sessionAll
    /\ UNCHANGED rbacVars
    /\ UNCHANGED <<verificationCodes, otp>>

----------------------------------------------------------------------------
(* The guard on its own: requests against a fixed role and permission table *)

MaxStrategies == 2      \* strategies one @Auth declaration lists

RECURSIVE SeqsUpTo(_, _)
SeqsUpTo(S, n) ==
    IF n = 0 THEN {<<>>}
    ELSE LET shorter == SeqsUpTo(S, n - 1)
         IN  shorter \cup {Append(q, x) : q \in shorter, x \in S}

\* what @Auth(authTypes, options) can put on a handler
HandlerMetas ==
    {NoMeta} \cup [authTypes : SeqsUpTo(AuthTypes, MaxStrategies), condition : ConditionGuard]

\* what @Auth can put on the controller class
ClassMetas == {NoMeta, [authTypes |-> <<"None">>, condition |-> "and"]}

\* access tokens signed at time 0 for roles 1 and 2 and for a role that has no row
PresentedAccessTokens ==
    {[signAccessToken([userId |-> 1, deviceId |-> 1, roleId |-> r, roleName |-> "R"], 1)
        EXCEPT !.exp = 0 + AccessTokenExpiration] : r \in {1, 2, 3}}

\* and a refresh token signed at time 0, and a token with another signature
PresentedTokens ==
    PresentedAccessTokens
        \cup {[signRefreshToken([userId |-> 1], 1) EXCEPT !.exp = 0 + RefreshTokenExpiration],
              ForgedToken}

Headers ==
    {NoHeader, <<Word("Bearer")>>}
        \cup {<<Word("Bearer"), t>> : t \in PresentedTokens}
        \cup {<<Word("Basic"), t>> : t \in {tk \in PresentedAccessTokens : tk.roleId = 1}}
        \cup {<<Word("Bearer"), Word(""), t>> :
                t \in {tk \in PresentedAccessTokens : tk.roleId = 1}}

RoutePaths ==
    {PREFIX_URL \o <<"/", "users">>,
     <<"/", "users">>,
     PREFIX_URL \o <<"/", "users", "/", ":id">>,
     PREFIX_URL \o PREFIX_URL \o <<"/", "users">>}

Methods == {"GET", "POST"}

\* the tables after the role service has soft-deleted role 2 or permission 1, or not
GuardRoleTables ==
    {[InitRoles EXCEPT ![2].deletedAt = d] : d \in {NoDate, 0}}
GuardPermissionTables ==
    {[InitPermissions EXCEPT ![1].deletedAt = d] : d \in {NoDate, 0}}

GuardInit ==
    /\ now = 0
    /\ users = InitUsers
    /\ roles \in GuardRoleTables
    /\ permissions \in GuardPermissionTables
    /\ devices = <<>>
    /\ refreshTokens = {}
    /\ verificationCodes = {}
    /\ nextUuid = 1
    /\ procs = [p \in Procs |-> Idle]
    /\ lastCall = NoCall
    /\ calls = 0
    /\ faults = 0
    /\ returned = {}
    /\ rotatedBy = {}
    /\ loggedOut = {}
    /\ guard = NoGuard
    /\ otp = NoOtp

GuardNext ==
    \/ /\ guard.pc = "idle"
       /\ \E handlerMeta \in HandlerMetas, classMeta \in ClassMetas, header \in Headers,
             path \in RoutePaths, method \in Methods :
               GuardRequest(handlerMeta, classMeta, header, path, method)
    \/ GuardStrategy
    \/ GuardBearerVerify
    \/ GuardBearerPermission
    \/ Tick

SpecGuard == GuardInit /\ [][GuardNext]_vars

----------------------------------------------------------------------------
(* Claims about the guard, checked under SpecGuard *)

GuardDone == guard.pc = "done"
MissingOrMalformed == UnauthorizedException("Access token is missing or malformed")
InvalidAccessToken == UnauthorizedException("Invalid access token")
GenericUnauthorized == UnauthorizedException("Unauthorized")
Forbidden == ForbiddenException("Unauthorized")

\* the header has a token where the guard looks for one, after the first space
HeaderHasToken == Len(guard.header) >= 2 /\ guard.header[2] \in PresentedTokens
HeaderToken == guard.header[2]

HasPrefix(path) == \E n \in 0..Len(path) : SubSeq(path, 1, n) = PREFIX_URL

\* a non-deleted role with that id has a non-deleted permission for the method whose
\* path is the request path without the prefix
Granted(roleId, routePath, method) ==
    \E r \in DOMAIN roles :
        /\ r = roleId
        /\ roles[r].deletedAt = NoDate
        /\ \E id \in roles[r].permissions :
              /\ permissions[id].deletedAt = NoDate
              /\ permissions[id].method = method
              /\ \/ routePath = PREFIX_URL \o permissions[id].path
                 \/ ~HasPrefix(routePath) /\ routePath = permissions[id].path

SingleBearerDone == GuardDone /\ guard.authTypes = <<"Bearer">>

\* C4: under the Bearer strategy a header without a token (absent, or with nothing
\* after its first space) fails with Unauthorized before any verification or role
\* lookup; a token that fails verification (wrong signature, or expired when it is
\* verified) fails with Unauthorized with no role lookup and no claims attached; a
\* verified token whose role lacks the permission fails with Forbidden; and a request
\* passes only with an access token whose role holds the permission
C4_BearerStrategy ==
    /\ [](SingleBearerDone =>
            /\ ~HeaderHasToken =>
                  /\ guard.result = Throws(MissingOrMalformed)
                  /\ guard.verifyCalls = 0 /\ guard.roleLookups = 0
                  /\ guard.user = NoToken
            /\ HeaderHasToken /\ HeaderToken.secret # AccessTokenSecret =>
                  guard.result = Throws(InvalidAccessToken)
            /\ guard.result = Throws(InvalidAccessToken) =>
                  guard.roleLookups = 0 /\ guard.user = NoToken
            /\ guard.user # NoToken /\ ~Granted(guard.user.roleId, guard.path, guard.method)
                  => guard.result = Throws(Forbidden)
            /\ guard.result = Pass =>
                  /\ HeaderHasToken /\ guard.user = HeaderToken
                  /\ HeaderToken.secret = AccessTokenSecret
                  /\ Granted(HeaderToken.roleId, guard.path, guard.method))
    /\ [][guard.pc = "verify" /\ guard.authTypes = <<"Bearer">> /\ guard'.pc # "verify" =>
            IF HeaderToken.secret = AccessTokenSecret /\ now < HeaderToken.exp
            THEN guard'.pc = "permission" /\ guard'.user = HeaderToken
            ELSE guard'.pc = "done" /\ guard'.result = Throws(InvalidAccessToken)]_vars

C4_Witness ==
    /\ SingleBearerDone /\ guard.handlerMeta # NoMeta
    /\ guard.user # NoToken /\ guard.user.roleId = 2 /\ guard.method = "POST"
    /\ guard.path = PREFIX_URL \o <<"/", "users">>
    /\ roles[2].deletedAt = NoDate
    /\ guard.result = Throws(Forbidden) /\ guard.roleLookups = 1

\* the outcomes of the Bearer strategies of the request that reached the role lookup
RbacOutcomes ==
    {guard.outcomes[i] : i \in {j \in 1..Len(guard.outcomes) :
        /\ guard.authTypes[j] = "Bearer"
        /\ guard.outcomes[j].error \notin {MissingOrMalformed, InvalidAccessToken}}}

\* C5: the permission check grants access if and only if a non-deleted role with the
\* token's role id has a non-deleted permission with the request's method and exactly
\* the request's path without the prefix, and denies with Forbidden otherwise: a
\* missing or soft-deleted role, another method, a longer path
C5_RbacExactMatch ==
    guard.pc # "idle" =>
        \A outcome \in RbacOutcomes :
            /\ outcome \in {Pass, Throws(Forbidden)}
            /\ outcome = Pass <=> Granted(guard.user.roleId, guard.path, guard.method)

C5_Witness ==
    /\ GuardDone /\ guard.authTypes = <<"Bearer">>
    /\ guard.user # NoToken /\ guard.user.roleId = 2 /\ guard.method = "GET"
    /\ roles[2].deletedAt = NoDate /\ permissions[1].deletedAt = NoDate
    /\ guard.path = PREFIX_URL \o <<"/", "users", "/", ":id">>
    /\ guard.result = Throws(Forbidden)

OrOverBearerAndNone ==
    /\ GuardDone /\ guard.condition = "or"
    /\ guard.authTypes \in {<<"Bearer", "None">>, <<"None", "Bearer">>}

\* C6: an endpoint declaring OR over Bearer and None, in either order, lets a request
\* without an Authorization header pass
C6_OrWithNonePasses ==
    OrOverBearerAndNone /\ guard.header = NoHeader => guard.result = Pass

C6_Witness ==
    /\ OrOverBearerAndNone /\ guard.authTypes = <<"Bearer", "None">>
    /\ guard.header = NoHeader
    /\ guard.outcomes = <<Throws(MissingOrMalformed), Pass>>
    /\ guard.result = Pass

\* the outcome belongs to the strategy: None passes, a strategy without a guard
\* throws a TypeError, Bearer passes or throws an HTTP error
OutcomeOf(authType, outcome) ==
    IF authType = "None" THEN outcome = Pass
    ELSE IF authType = "ApiKey" THEN outcome = Throws(TypeError)
    ELSE outcome \in {Pass, Throws(MissingOrMalformed), Throws(InvalidAccessToken),
                      Throws(Forbidden)}

EvaluatedInOrder ==
    /\ Len(guard.outcomes) <= Len(guard.authTypes)
    /\ \A i \in 1..Len(guard.outcomes) : OutcomeOf(guard.authTypes[i], guard.outcomes[i])

Normalized(outcome) ==
    IF outcome.error # NoError /\ isHttpException(outcome.error) THEN Throws(outcome.error)
    ELSE Throws(GenericUnauthorized)

\* C7: under AND the strategies are evaluated in declared order, every strategy before
\* the last evaluated one has passed, the request passes only when all have passed,
\* and the first failure ends the evaluation: nothing after it is evaluated, its
\* HTTP error is the result unchanged, any other failure gives a generic Unauthorized
C7_AndAbortsOnFirstFailure ==
    guard.pc # "idle" /\ guard.condition = "and" =>
        LET n == Len(guard.outcomes)
        IN  /\ EvaluatedInOrder
            /\ \A i \in 1..(n - 1) : guard.outcomes[i] = Pass
            /\ n >= 1 /\ ~guard.outcomes[n].ok =>
                  GuardDone /\ guard.result = Normalized(guard.outcomes[n])
            /\ GuardDone /\ guard.result = Pass =>
                  n = Len(guard.authTypes) /\ \A i \in 1..n : guard.outcomes[i] = Pass

C7_Witness ==
    /\ GuardDone /\ guard.condition = "and"
    /\ guard.authTypes = <<"ApiKey", "Bearer">>
    /\ HeaderHasToken /\ HeaderToken.secret = AccessTokenSecret
    /\ guard.outcomes = <<Throws(TypeError)>>
    /\ guard.verifyCalls = 0
    /\ guard.result = Throws(GenericUnauthorized)

\* the last error thrown by a strategy of the request, NoError when none threw
LastErrorRaised ==
    LET threw == {i \in 1..Len(guard.outcomes) : guard.outcomes[i].error # NoError}
    IN  IF threw = {} THEN NoError
        ELSE guard.outcomes[CHOOSE i \in threw : \A j \in threw : j <= i].error

\* C8: under OR the strategies are tried in declared order, the first that passes
\* ends the evaluation with success and nothing after it is evaluated; when all have
\* failed the last error thrown is the result unchanged if it is an HTTP error, and
\* a generic Unauthorized otherwise
C8_OrSurfacesLastError ==
    guard.pc # "idle" /\ guard.condition = "or" =>
        LET n == Len(guard.outcomes)
        IN  /\ EvaluatedInOrder
            /\ \A i \in 1..(n - 1) : ~guard.outcomes[i].ok
            /\ n >= 1 /\ guard.outcomes[n].ok => GuardDone /\ guard.result = Pass
            /\ GuardDone /\ guard.result = Pass => n >= 1 /\ guard.outcomes[n].ok
            /\ GuardDone /\ guard.result # Pass =>
                  /\ n = Len(guard.authTypes)
                  /\ guard.result = IF isHttpException(LastErrorRaised)
                                    THEN Throws(LastErrorRaised)
                                    ELSE Throws(GenericUnauthorized)

C8_Witness ==
    /\ GuardDone /\ guard.condition = "or"
    /\ guard.authTypes = <<"ApiKey", "Bearer">>
    /\ guard.outcomes = <<Throws(TypeError), Throws(MissingOrMalformed)>>
    /\ guard.result = Throws(MissingOrMalformed)

Undeclared ==
    guard.pc # "idle" /\ guard.handlerMeta = NoMeta /\ guard.classMeta = NoMeta

\* C9: an endpoint with no declaration on its handler or its class is guarded by the
\* single strategy Bearer under AND: the result of the request is the outcome of the
\* Bearer strategy, and the request passes only with a token in the header that is an
\* access token whose role holds the permission
C9_UndeclaredIsBearerAnd ==
    Undeclared =>
        /\ guard.authTypes = <<"Bearer">> /\ guard.condition = "and"
        /\ GuardDone =>
              /\ guard.outcomes = <<guard.result>>
              /\ OutcomeOf("Bearer", guard.result)
              /\ guard.result = Pass =>
                    /\ HeaderHasToken /\ HeaderToken.secret = AccessTokenSecret
                    /\ guard.verifyCalls = 1 /\ guard.roleLookups = 1
                    /\ Granted(HeaderToken.roleId, guard.path, guard.method)

C9_Witness ==
    /\ Undeclared /\ GuardDone
    /\ guard.header = NoHeader
    /\ guard.result = Throws(MissingOrMalformed)

----------------------------------------------------------------------------
(* Verification codes: AuthService.sendOTP and validateVerificationCode *)

MaxOtps == 2            \* sendOTP calls in one run
OtpExpiresIn == 1       \* OTP_EXPIRES_IN, in clock ticks

TypeVerifycationCode == {"REGISTER", "FORGOT_PASSWORD", "LOGIN", "DISABLE_2FA"}
OtpEmails == {"a@x", "nobody@x"}
\* what generateOTP can return
Codes == {"111111", "222222"}

\* mutant: a row is added at every call
createVerificationCode_Insert(table, payload) == table \cup {payload}

\* verificationCode.upsert({ where: { email }, create: payload,
\*                           update: { code, expiresAt } })
createVerificationCode(table, payload) ==
    IF \E v \in table : v.email = payload.email
    THEN {IF v.email = payload.email
          THEN [v EXCEPT !.code = payload.code, !.expiresAt = payload.expiresAt]
          ELSE v : v \in table}
    ELSE table \cup {payload}

\* the error sendOTP throws before it generates a code, or NoError
sendOTPChecks(email, type) ==
    LET user == findUniqueUser(email)
    IN  IF type = "REGISTER" /\ user # 0 THEN EmailAlreadyExistsException
        ELSE IF type = "FORGOT_PASSWORD" /\ user = 0 THEN EmailNotExistsException
        ELSE NoError

\* sendOTP(body): code is what generateOTP returns, sendError what the mail service
\* answers
SendOTP(email, type, code, sendError) ==
    /\ otp.sent < MaxOtps
    /\ LET error == sendOTPChecks(email, type)
           payload == [email |-> email, code |-> code, type |-> type,
                       expiresAt |-> now + OtpExpiresIn]
           res == IF error # NoError THEN error
                  ELSE IF sendError THEN FailedToSendOTPException
                  ELSE NoError
       IN  /\ verificationCodes' =
                IF error # NoError THEN verificationCodes
                ELSE createVerificationCode(verificationCodes, payload)
           /\ otp' = [op |-> "sendOTP", email |-> email, type |-> type, code |-> code,
                      res |-> res, at |-> now, sent |-> otp.sent + 1,
                      effects |-> otp.effects, consumed |-> otp.consumed,
                      issued |-> IF error # NoError THEN otp.issued
                                 ELSE {i \in otp.issued :
                                          ~(i.email = email /\ i.type = type)}
                                      \cup {payload},
                      replaced |-> IF error # NoError THEN otp.replaced
                                   ELSE {r \in otp.replaced \cup
                                            {[email |-> i.email, type |-> i.type,
                                              code |-> i.code] :
                                                i \in {j \in otp.issued :
                                                    j.email = email /\ j.type = type}} :
                                          ~(r.email = email /\ r.code = code)}]
    /\ UNCHANGED sessionAll
    /\ UNCHANGED rbacVars
    /\ UNCHANGED guard

\* validateVerificationCode({ email, code, type }) is called
ValidateVerificationCode(email, code, type) ==
    /\ otp' = [otp EXCEPT !.op = "validateVerificationCode", !.email = email,
                          !.type = type, !.code = code, !.at = now,
                          !.res = validateVerificationCode(email, code, type)]
    /\ UNCHANGED verificationCodes
    /\ UNCHANGED sessionAll
    /\ UNCHANGED rbacVars
    /\ UNCHANGED guard

OtpNext ==
    \/ /\ otp.sent < MaxOtps
       /\ \E email \in OtpEmails, type \in TypeVerifycationCode, code \in Codes,
             sendError \in BOOLEAN : SendOTP(email, type, code, sendError)
    \/ \E email \in OtpEmails, type \in TypeVerifycationCode, code \in Codes :
            ValidateVerificationCode(email, code, type)
    \/ Tick

SpecOTP == Init /\ [][OtpNext]_vars

----------------------------------------------------------------------------
(* Claims about verification codes, checked under SpecOTP *)

\* C10: verification codes are keyed by (email, purpose): the code last stored by
\* sendOTP for an email and a purpose stays stored under that email and purpose
\* whatever is issued for the same email under other purposes, and validating it
\* with that email and purpose before its expiry succeeds
C10_CodesKeyedByEmailAndPurpose ==
    /\ \A i \in otp.issued : i \in verificationCodes
    /\ otp.op = "validateVerificationCode" =>
          \A i \in otp.issued :
              /\ i.email = otp.email /\ i.type = otp.type /\ i.code = otp.code
              /\ now < i.expiresAt
              => otp.res = NoError


\* the last call was a sendOTP that stored its code
SendOTPStored ==
    otp.op = "sendOTP" /\ otp.res \in {NoError, FailedToSendOTPException}

\* C11: there is at most one stored code per (email, purpose); a sendOTP that stores
\* a code leaves for its email one row, with the new code and the new expiry; and a
\* code that a later sendOTP for the same (email, purpose) replaced, and that has not
\* been generated again for that email since, is rejected with InvalidOTP
C11_OneCodePerEmailAndPurpose ==
    /\ \A v \in verificationCodes, w \in verificationCodes :
          v.email = w.email /\ v.type = w.type => v = w
    /\ SendOTPStored =>
          /\ \E v \in verificationCodes : v.email = otp.email
          /\ \A v \in verificationCodes : v.email = otp.email =>
                /\ v.code = otp.code
                /\ v.expiresAt = otp.at + OtpExpiresIn
    /\ otp.op = "validateVerificationCode"
          /\ [email |-> otp.email, type |-> otp.type, code |-> otp.code] \in otp.replaced
          => otp.res = InvalidOTPException

C11_Witness ==
    /\ otp.op = "validateVerificationCode"
    /\ [email |-> otp.email, type |-> otp.type, code |-> otp.code] \in otp.replaced
    /\ \E i \in otp.issued : i.email = otp.email /\ i.type = otp.type /\ i.expiresAt > now
    /\ otp.res = InvalidOTPException

\* the stored code the last validation presented
ValidatedRows ==
    {v \in verificationCodes :
        v.email = otp.email /\ v.code = otp.code /\ v.type = otp.type}

\* C12: a stored code validated at a time equal to its expiresAt, or later, is
\* rejected as expired, and validated before its expiresAt it is accepted, by the
\* time of the validation
C12_ExpiryBoundary ==
    otp.op = "validateVerificationCode" =>
        \A v \in ValidatedRows :
            /\ otp.at >= v.expiresAt => otp.res = InvalidOTPExpiredExcepton
            /\ otp.at < v.expiresAt => otp.res = NoError


----------------------------------------------------------------------------
(* Single-use codes: AuthService.register and forgotPassword *)

NewPasswords == {"pwA", "pwB"}

\* RolesService.getClientRoleId: the id of the non-deleted role named CLIENT
getClientRoleId ==
    CHOOSE id \in DOMAIN roles : roles[id].name = "CLIENT" /\ roles[id].deletedAt = NoDate

\* prismaService.user.create({ data: user })
createUser(table, user) == Append(table, user)

\* authRepository.updateUser({ email }, { password })
updateUser(table, email, password) ==
    [id \in DOMAIN table |->
        IF table[id].email = email THEN [table[id] EXCEPT !.password = password]
        ELSE table[id]]

\* authRepository.deleteVerificationCode({ email_code_type: { email, code, type } })
deleteVerificationCode(table, email, code, type) ==
    {v \in table : ~(v.email = email /\ v.code = code /\ v.type = type)}

registerCatch(error) ==
    IF isUniqueConstraintPrismaError(error) THEN EmailAlreadyExistsException ELSE error

forgotPasswordCatch(error) ==
    IF isNotFoundPrismaError(error) THEN EmailNotExistsException ELSE error

\* the result of a register / forgotPassword call, and whether it presented a code
\* that an earlier successful call had presented
ConsumeReturn(op, email, code, type, afterConsumed, error) ==
    [op |-> op, email |-> email, code |-> code, type |-> type,
     afterConsumed |-> afterConsumed, res |-> error]

\* the call of slot p waits in Promise.all for its two writes
ConsumeWrites(p, op, type, email, code, password, userWrite) ==
    [pc |-> "writes", op |-> op, type |-> type, call |-> calls + 1, email |-> email,
     code |-> code, password |-> password, pending |-> {userWrite, "deleteVerificationCode"},
     error |-> NoError,
     afterConsumed |-> [email |-> email, code |-> code, type |-> type] \in otp.consumed]

\* one of the two writes of slot p is answered; the first rejection is what
\* Promise.all rejects with
ConsumeAnswered(p, write, error) ==
    [procs EXCEPT ![p].pending = @ \ {write},
                  ![p].error = IF @ = NoError THEN error ELSE @]

consumeFrame == <<now, devices, refreshTokens, nextUuid, faults, returned, rotatedBy, loggedOut,
                  roles, permissions, guard>>

\* register(body): validateVerificationCode, getClientRoleId, then the two writes start
RegisterValidate(p, email, code, password) ==
    /\ CanStart(p)
    /\ LET error == validateVerificationCode(email, code, "REGISTER")
           afterConsumed ==
               [email |-> email, code |-> code, type |-> "REGISTER"] \in otp.consumed
       IN  IF error # NoError
           THEN /\ lastCall' = ConsumeReturn("register", email, code, "REGISTER",
                                             afterConsumed, registerCatch(error))
                /\ UNCHANGED procs
           ELSE /\ lastCall' = NoCall
                /\ procs' = [procs EXCEPT ![p] =
                      ConsumeWrites(p, "register", "REGISTER", email, code, password,
                                    "createUser")]
    /\ calls' = calls + 1
    /\ UNCHANGED <<users, verificationCodes, otp>>
    /\ UNCHANGED consumeFrame

\* createUser of a register call: the email is unique among users
RegisterCreateUser(p) ==
    /\ procs[p].pc = "writes" /\ "createUser" \in procs[p].pending
    /\ IF findUniqueUser(procs[p].email) # 0
       THEN /\ procs' = ConsumeAnswered(p, "createUser",
                                        PrismaClientKnownRequestError("P2002"))
            /\ UNCHANGED <<users, otp>>
       ELSE /\ users' = createUser(users,
                  [email |-> procs[p].email, password |-> procs[p].password,
                   roleId |-> getClientRoleId, totpSecret |-> NoSecret])
            /\ otp' = [otp EXCEPT !.effects = @ \cup
                          {[call |-> procs[p].call, op |-> "register",
                            email |-> procs[p].email, code |-> procs[p].code]}]
            /\ procs' = ConsumeAnswered(p, "createUser", NoError)
    /\ lastCall' = NoCall
    /\ UNCHANGED <<verificationCodes, calls>>
    /\ UNCHANGED consumeFrame

\* forgotPassword(body): user lookup, validateVerificationCode, then the two writes
\* start
ForgotPasswordValidate(p, email, code, newPassword) ==
    /\ CanStart(p)
    /\ LET error == IF findUniqueUser(email) = 0 THEN EmailNotExistsException
                    ELSE validateVerificationCode(email, code, "FORGOT_PASSWORD")
           afterConsumed ==
               [email |-> email, code |-> code, type |-> "FORGOT_PASSWORD"]
                   \in otp.consumed
       IN  IF error # NoError
           THEN /\ lastCall' = ConsumeReturn("forgotPassword", email, code,
                                             "FORGOT_PASSWORD", afterConsumed,
                                             forgotPasswordCatch(error))
                /\ UNCHANGED procs
           ELSE /\ lastCall' = NoCall
                /\ procs' = [procs EXCEPT ![p] =
                      ConsumeWrites(p, "forgotPassword", "FORGOT_PASSWORD", email, code,
                                    newPassword, "updateUser")]
    /\ calls' = calls + 1
    /\ UNCHANGED <<users, verificationCodes, otp>>
    /\ UNCHANGED consumeFrame

\* updateUser of a forgotPassword call
ForgotPasswordUpdateUser(p) ==
    /\ procs[p].pc = "writes" /\ "updateUser" \in procs[p].pending
    /\ users' = updateUser(users, procs[p].email, procs[p].password)
    /\ otp' = [otp EXCEPT !.effects = @ \cup
                  {[call |-> procs[p].call, op |-> "forgotPassword",
                    email |-> procs[p].email, code |-> procs[p].code]}]
    /\ procs' = ConsumeAnswered(p, "updateUser", NoError)
    /\ lastCall' = NoCall
    /\ UNCHANGED <<verificationCodes, calls>>
    /\ UNCHANGED consumeFrame

\* deleteVerificationCode of a register or forgotPassword call: a delete of a row that
\* is not there is rejected (P2025)
ConsumeDeleteCode(p) ==
    /\ procs[p].pc = "writes" /\ "deleteVerificationCode" \in procs[p].pending
    /\ LET stored == findVerificationCodeByEmailAndType(procs[p].email, procs[p].code,
                                                        procs[p].type) # NoVerificationCode
       IN  /\ verificationCodes' =
                deleteVerificationCode(verificationCodes, procs[p].email, procs[p].code,
                                       procs[p].type)
           /\ procs' = ConsumeAnswered(p, "deleteVerificationCode",
                          IF stored THEN NoError
                          ELSE PrismaClientKnownRequestError("P2025"))
    /\ lastCall' = NoCall
    /\ UNCHANGED <<users, otp, calls>>
    /\ UNCHANGED consumeFrame

\* Promise.all of a register or forgotPassword call has settled: return, or the catch
ConsumeSettled(p) ==
    /\ procs[p].pc = "writes" /\ procs[p].pending = {}
    /\ LET error == IF procs[p].op = "register" THEN registerCatch(procs[p].error)
                    ELSE forgotPasswordCatch(procs[p].error)
       IN  /\ lastCall' = ConsumeReturn(procs[p].op, procs[p].email, procs[p].code,
                                        procs[p].type, procs[p].afterConsumed, error)
           /\ otp' = IF error # NoError THEN otp
                     ELSE [otp EXCEPT !.consumed = @ \cup
                              {[email |-> procs[p].email, code |-> procs[p].code,
                                type |-> procs[p].type]}]
    /\ procs' = [procs EXCEPT ![p] = Idle]
    /\ UNCHANGED <<users, verificationCodes, calls>>
    /\ UNCHANGED consumeFrame

\* after sendOTP for the password of a@x and for the registration of nobody@x
ConsumeInitCodes ==
    {[email |-> "a@x", code |-> "111111", type |-> "FORGOT_PASSWORD",
      expiresAt |-> 0 + OtpExpiresIn],
     [email |-> "nobody@x", code |-> "111111", type |-> "REGISTER",
      expiresAt |-> 0 + OtpExpiresIn]}

ConsumeInit ==
    /\ now = 0
    /\ users = InitUsers
    /\ roles = InitRoles
    /\ permissions = InitPermissions
    /\ devices = <<>>
    /\ refreshTokens = {}
    /\ verificationCodes = ConsumeInitCodes
    /\ nextUuid = 1
    /\ procs = [p \in Procs |-> Idle]
    /\ lastCall = NoCall
    /\ calls = 0
    /\ faults = 0
    /\ returned = {}
    /\ rotatedBy = {}
    /\ loggedOut = {}
    /\ guard = NoGuard
    /\ otp = [NoOtp EXCEPT !.op = "sendOTP", !.email = "nobody@x", !.type = "REGISTER",
                           !.code = "111111", !.sent = 2, !.issued = ConsumeInitCodes]

ConsumeNext ==
    \/ \E p \in Procs : CanStart(p) /\
          \E email \in OtpEmails, code \in Codes, password \in NewPasswords :
              RegisterValidate(p, email, code, password)
    \/ \E p \in Procs : RegisterCreateUser(p)
    \/ \E p \in Procs : CanStart(p) /\
          \E email \in OtpEmails, code \in Codes, password \in NewPasswords :
              ForgotPasswordValidate(p, email, code, password)
    \/ \E p \in Procs : ForgotPasswordUpdateUser(p)
    \/ \E p \in Procs : ConsumeDeleteCode(p)
    \/ \E p \in Procs : ConsumeSettled(p)
    \/ Tick

SpecConsume == ConsumeInit /\ [][ConsumeNext]_vars

\* C13: a verification code is not replayed by register or forgotPassword: among the
\* calls that present the same code for the same email at most one has its user write
\* applied, and a call that presents a code after a call presenting it has succeeded
\* fails with InvalidOTP
C13_CodeNotReplayed ==
    /\ \A x \in otp.effects, y \in otp.effects :
          x.op = y.op /\ x.email = y.email /\ x.code = y.code => x = y
    /\ lastCall.op \in {"register", "forgotPassword"} /\ lastCall.afterConsumed =>
          lastCall.res = InvalidOTPException


----------------------------------------------------------------------------
(* POST /auth/login: LoginBodySchema, then AuthService.login *)

ZodValidationError(message) == [type |-> "ZodValidationError", code |-> message]

\* LoginBodySchema.superRefine: totpCode and code are not both defined
LoginBodySchema(totpCode, code) ==
    IF totpCode # NoTotp /\ code # NoCode
    THEN ZodValidationError("TOTP code or OTP code is required. Not provided both")
    ELSE NoError

\* AuthController.login: a body the schema rejects does not reach the service
LoginRequest(p, email, password, totpCode, code, userAgent, ip) ==
    IF LoginBodySchema(totpCode, code) # NoError
    THEN /\ CanStart(p)
         /\ lastCall' = LoginReturn(email, password, totpCode, code,
                                    LoginBodySchema(totpCode, code), NoTokens)
         /\ calls' = calls + 1
         /\ UNCHANGED <<now, devices, refreshTokens, nextUuid, procs, faults, returned,
                        rotatedBy, loggedOut>>
         /\ UNCHANGED rbacVars
         /\ UNCHANGED otherVars
    ELSE Login(p, email, password, totpCode, code, userAgent, ip)

\* TOTP codes of the secret of b@x for the steps around the clock, and a code of
\* another secret
TotpSteps == 0..(MaxTime + 2)
LoginTotpInputs ==
    {NoTotp} \cup {TOTPGenerate("S2", c) : c \in TotpSteps} \cup {TOTPGenerate("S9", 0)}
LoginCodeInputs == {NoCode} \cup Codes

\* after sendOTP({ email: b@x, type: LOGIN }) at time 0
LoginInitCodes ==
    {[email |-> "b@x", code |-> "111111", type |-> "LOGIN", expiresAt |-> 0 + OtpExpiresIn]}

LoginInit ==
    /\ now = 0
    /\ users = InitUsers
    /\ roles = InitRoles
    /\ permissions = InitPermissions
    /\ devices = <<>>
    /\ refreshTokens = {}
    /\ verificationCodes = LoginInitCodes
    /\ nextUuid = 1
    /\ procs = [p \in Procs |-> Idle]
    /\ lastCall = NoCall
    /\ calls = 0
    /\ faults = 0
    /\ returned = {}
    /\ rotatedBy = {}
    /\ loggedOut = {}
    /\ guard = NoGuard
    /\ otp = [NoOtp EXCEPT !.op = "sendOTP", !.email = "b@x", !.type = "LOGIN",
                           !.code = "111111", !.sent = 1, !.issued = LoginInitCodes]

LoginNext ==
    \/ \E p \in Procs : CanStart(p) /\
          \E email \in Emails, password \in Passwords, totpCode \in LoginTotpInputs,
             code \in LoginCodeInputs, userAgent \in UserAgents, ip \in Ips :
                LoginRequest(p, email, password, totpCode, code, userAgent, ip)
    \/ Tick

SpecLogin == LoginInit /\ [][LoginNext]_vars

\* the login call that just returned was made with the right password by a user
\* who has two-factor authentication enabled
TotpUserLogin ==
    /\ lastCall.op = "login"
    /\ \E id \in DOMAIN users :
          /\ users[id].email = lastCall.email
          /\ users[id].password = lastCall.password
          /\ users[id].totpSecret # NoSecret

NeitherSupplied == lastCall.totpCode = NoTotp /\ lastCall.code = NoCode
BothSupplied == lastCall.totpCode # NoTotp /\ lastCall.code # NoCode

\* C14 (as stated): a login of a user with two-factor authentication enabled fails
\* with InvalidTOTPAndCode when neither or both of totpCode and code are supplied,
\* and proceeds only when exactly one of them is supplied.
C14_ExactlyOneFactor ==
    TotpUserLogin =>
        /\ NeitherSupplied \/ BothSupplied => lastCall.res = InvalidTOTPAndCodeException
        /\ lastCall.res = NoError => ~NeitherSupplied /\ ~BothSupplied

\* C14 (amended): such a login fails with InvalidTOTPAndCode when neither totpCode
\* nor code is supplied, is rejected by the validation of the request body when
\* both are supplied, and proceeds only when exactly one of them is supplied.
C14_ExactlyOneFactorAmended ==
    TotpUserLogin =>
        /\ NeitherSupplied => lastCall.res = InvalidTOTPAndCodeException
        /\ BothSupplied =>
              lastCall.res =
                 ZodValidationError("TOTP code or OTP code is required. Not provided both")
        /\ lastCall.res = NoError => ~NeitherSupplied /\ ~BothSupplied

C14_Witness ==
    /\ TotpUserLogin
    /\ BothSupplied
    /\ verifyTOTP(lastCall.totpCode, "S2")
    /\ lastCall.res # NoError
    /\ lastCall.res # InvalidTOTPAndCodeException

\* the TOTP step a code presented to login was generated for, -1 if it is not a
\* code of the user's secret
PresentedStep ==
    LET id == findUniqueUser(lastCall.email)
        steps == {c \in TotpSteps :
                     lastCall.totpCode = TOTPGenerate(users[id].totpSecret, c)}
    IN  IF steps = {} THEN -1 ELSE CHOOSE c \in steps : TRUE

StepsAway(a, b) == IF a >= b THEN a - b ELSE b - a

\* C16: with time counted in TOTP steps, verification accepts a code generated for
\* the current, the preceding or the following step, and rejects a code generated
\* two or more steps away.
C16_TotpWindow ==
    TotpUserLogin /\ lastCall.code = NoCode /\ PresentedStep # -1 =>
        /\ StepsAway(PresentedStep, now \div TotpPeriod) <= 1 => lastCall.res = NoError
        /\ StepsAway(PresentedStep, now \div TotpPeriod) >= 2 =>
              lastCall.res = InvalidTOTPException

C16_Witness ==
    /\ TotpUserLogin
    /\ lastCall.code = NoCode
    /\ now \div TotpPeriod = 1
    /\ PresentedStep = 0
    /\ lastCall.res = NoError
    /\ lastCall.out.refreshToken \in returned

----------------------------------------------------------------------------
(* One caller presenting the tokens it was handed wherever a token is taken: the
   body of refreshToken and logout, and the Bearer header of a guarded request *)

\* the access token of the pair the last call returned
HandedAccessTokens ==
    IF lastCall.op \in {"login", "refreshToken"} /\ lastCall.res = NoError
    THEN {lastCall.out.accessToken} ELSE {}

HandedTokens == returned \cup HandedAccessTokens

KindsNext ==
    \/ /\ CanStart(1)
       /\ \E userAgent \in UserAgents, ip \in Ips :
             Login(1, "a@x", "pw1", NoTotp, NoCode, userAgent, ip)
    \/ /\ CanStart(1)
       /\ \E token \in HandedTokens, userAgent \in UserAgents, ip \in Ips :
             RefreshTokenVerify(1, token, userAgent, ip)
    \/ RefreshTokenLookup(1)
    \/ \E stored \in BOOLEAN : RefreshTokenUpdateDevice(1, stored)
    \/ \E stored \in BOOLEAN : RefreshTokenDelete(1, stored)
    \/ \E stored \in BOOLEAN : RefreshTokenGenerate(1, stored)
    \/ RefreshTokenReturn(1)
    \/ /\ CanStart(1)
       /\ \E token \in HandedTokens : LogoutVerify(1, token)
    \/ LogoutDelete(1)
    \/ LogoutUpdateDevice(1)
    \/ /\ guard.pc = "idle"
       /\ \E token \in HandedTokens, method \in Methods :
             GuardRequest(NoMeta, NoMeta, <<Word("Bearer"), token>>,
                          PREFIX_URL \o <<"/", "users">>, method)
    \/ GuardStrategy
    \/ GuardBearerVerify
    \/ GuardBearerPermission
    \/ Tick

SpecKinds == Init /\ [][KindsNext]_vars

\* the guarded request carries a token made by signRefreshToken
BearerOfRefreshToken == guard.pc # "idle" /\ guard.header[2] \in returned

\* C15: a token made by signRefreshToken is never accepted by verifyAccessToken and
\* never passes the Bearer strategy; a token made by signAccessToken is never
\* accepted by verifyRefreshToken and never drives refreshToken or logout.
C15_TokenKindsNotInterchangeable ==
    /\ \A token \in returned : verifyAccessToken(token) # NoError
    /\ \A token \in HandedAccessTokens : verifyRefreshToken(token) # NoError
    /\ BearerOfRefreshToken =>
          /\ guard.user = NoToken
          /\ guard.roleLookups = 0
          /\ guard.result # Pass
          /\ guard.pc = "done" => guard.result = Throws(InvalidAccessToken)
    /\ \A p \in Procs : procs[p].pc # "idle" => procs[p].tok \in returned
    /\ lastCall.op \in {"refreshToken", "logout"} /\ lastCall.tok \notin returned =>
          /\ ~lastCall.verified
          /\ lastCall.res = UnauthorizedException("Invalid token")

\* both misuses happened: a request with a refresh token in its Bearer header was
\* turned away, and refreshToken was just called with an access token
C15_Witness ==
    /\ BearerOfRefreshToken
    /\ guard.pc = "done"
    /\ guard.verifyCalls = 1
    /\ lastCall.op = "refreshToken"
    /\ lastCall.tok.secret = AccessTokenSecret
    /\ lastCall.res = UnauthorizedException("Invalid token")

----------------------------------------------------------------------------
(* PermissionService and PermissionRepository: the Permission table is a sequence,
   a row's id is its index, and a row removed by hardDelete leaves ErasedRow so
   that its id is not given out again *)

MaxPermissions == 2     \* permissions created in one run

PermissionPaths == {<<"/", "users">>, <<"/", "roles">>}
NoPath == <<>>          \* the body has no path
NoMethod == ""          \* the body has no method
ErasedRow == [path |-> NoPath, method |-> NoMethod, deletedAt |-> NoDate]

\* the exceptions of permission.error, by name
PermissionException(name) == [type |-> "PermissionException", code |-> name]

\* the permission call returns
PermissionReturn(op, ids, error) == [op |-> op, ids |-> ids, res |-> error]

PermissionIds(table) == {id \in DOMAIN table : table[id] # ErasedRow}

\* PermissionRepository.findById: the row, or none; deleted rows only on request
permissionFound(table, id, includeDeleted) ==
    /\ id \in PermissionIds(table)
    /\ includeDeleted \/ table[id].deletedAt = NoDate

\* PermissionRepository.findByPathAndMethod: the ids findFirst chooses from
findByPathAndMethod(table, path, method, excludeId, includeDeleted) ==
    {id \in PermissionIds(table) :
        /\ table[id].path = path
        /\ table[id].method = method
        /\ excludeId # 0 => id # excludeId
        /\ includeDeleted \/ table[id].deletedAt = NoDate}

\* PermissionService.create
PermissionCreate(path, method) ==
    /\ Len(permissions) < MaxPermissions
    /\ IF findByPathAndMethod(permissions, path, method, 0, TRUE) # {}
       THEN /\ lastCall' = PermissionReturn("create", {},
                                            PermissionException("PermissionAlreadyExists"))
            /\ UNCHANGED permissions
       ELSE /\ permissions' = Append(permissions, [path |-> path, method |-> method,
                                                   deletedAt |-> NoDate])
            /\ lastCall' = PermissionReturn("create", {Len(permissions) + 1}, NoError)
    /\ UNCHANGED <<now, users, roles>>
    /\ UNCHANGED sessionVars
    /\ UNCHANGED otherVars

\* PermissionService.update: data has a path, a method, or only other fields
PermissionUpdate(id, path, method, others) ==
    /\ LET error ==
             IF path = NoPath /\ method = NoMethod /\ ~others
             THEN PermissionException("AtLeastOneFieldMustBeProvided")
             ELSE IF ~permissionFound(permissions, id, FALSE)
             THEN PermissionException("PermissionNotFound")
             ELSE IF path # NoPath \/ method # NoMethod
             THEN LET pathToCheck == IF path # NoPath THEN path ELSE permissions[id].path
                      methodToCheck ==
                          IF method # NoMethod THEN method ELSE permissions[id].method
                  IN  IF findByPathAndMethod(permissions, pathToCheck, methodToCheck, id,
                                             FALSE) # {}
                      THEN PermissionException("PermissionAlreadyExists")
                      ELSE NoError
             ELSE NoError
       IN  /\ lastCall' = PermissionReturn("update", {id}, error)
           /\ permissions' =
                 IF error # NoError THEN permissions
                 ELSE [permissions EXCEPT
                          ![id].path = IF path # NoPath THEN path ELSE @,
                          ![id].method = IF method # NoMethod THEN method ELSE @]
    /\ UNCHANGED <<now, users, roles>>
    /\ UNCHANGED sessionVars
    /\ UNCHANGED otherVars

\* PermissionService.softDelete
PermissionSoftDelete(id) ==
    /\ IF ~permissionFound(permissions, id, FALSE)
       THEN /\ lastCall' = PermissionReturn("softDelete", {id},
                                            PermissionException("PermissionNotFound"))
            /\ UNCHANGED permissions
       ELSE /\ permissions' = [permissions EXCEPT ![id].deletedAt = now]
            /\ lastCall' = PermissionReturn("softDelete", {id}, NoError)
    /\ UNCHANGED <<now, users, roles>>
    /\ UNCHANGED sessionVars
    /\ UNCHANGED otherVars

\* restore without the search for a non-deleted permission with the same pair
restoreChecks_NoConflict(id) ==
    IF ~permissionFound(permissions, id, TRUE)
    THEN PermissionException("PermissionNotFound")
    ELSE IF permissions[id].deletedAt = NoDate
    THEN PermissionException("PermissionNotDeleted")
    ELSE NoError

\* the checks of restore before its write
restoreChecks(id) ==
    IF ~permissionFound(permissions, id, TRUE)
    THEN PermissionException("PermissionNotFound")
    ELSE IF permissions[id].deletedAt = NoDate
    THEN PermissionException("PermissionNotDeleted")
    ELSE IF findByPathAndMethod(permissions, permissions[id].path,
                                permissions[id].method, id, FALSE) # {}
    THEN PermissionException("PermissionCouldNotRestore")
    ELSE NoError

\* PermissionService.restore
PermissionRestore(id) ==
    /\ lastCall' = PermissionReturn("restore", {id}, restoreChecks(id))
    /\ permissions' = IF restoreChecks(id) # NoError THEN permissions
                      ELSE [permissions EXCEPT ![id].deletedAt = NoDate]
    /\ UNCHANGED <<now, users, roles>>
    /\ UNCHANGED sessionVars
    /\ UNCHANGED otherVars

\* PermissionService.hardDelete
PermissionHardDelete(id) ==
    /\ IF ~permissionFound(permissions, id, TRUE)
       THEN /\ lastCall' = PermissionReturn("hardDelete", {id},
                                            PermissionException("PermissionNotFound"))
            /\ UNCHANGED permissions
       ELSE /\ permissions' = [permissions EXCEPT ![id] = ErasedRow]
            /\ lastCall' = PermissionReturn("hardDelete", {id}, NoError)
    /\ UNCHANGED <<now, users, roles>>
    /\ UNCHANGED sessionVars
    /\ UNCHANGED otherVars

\* PermissionService.bulkSoftDelete: updateMany over the listed non-deleted rows
PermissionBulkSoftDelete(ids) ==
    /\ LET hit == {id \in ids : permissionFound(permissions, id, FALSE)}
           error == IF ids = {}
                    THEN PermissionException("AtLeastOnePermissionIdMustBeProvided")
                    ELSE IF hit = {}
                    THEN PermissionException("NoPermissionFoundToDelete")
                    ELSE NoError
       IN  /\ lastCall' = PermissionReturn("bulkSoftDelete", ids, error)
           /\ permissions' = [id \in DOMAIN permissions |->
                                 IF id \in hit
                                 THEN [permissions[id] EXCEPT !.deletedAt = now]
                                 ELSE permissions[id]]
    /\ UNCHANGED <<now, users, roles>>
    /\ UNCHANGED sessionVars
    /\ UNCHANGED otherVars

\* the seed script creates no permission
PermissionInit ==
    /\ now = 0
    /\ users = InitUsers
    /\ roles = InitRoles
    /\ permissions = <<>>
    /\ devices = <<>>
    /\ refreshTokens = {}
    /\ verificationCodes = {}
    /\ nextUuid = 1
    /\ procs = [p \in Procs |-> Idle]
    /\ lastCall = NoCall
    /\ calls = 0
    /\ faults = 0
    /\ returned = {}
    /\ rotatedBy = {}
    /\ loggedOut = {}
    /\ guard = NoGuard
    /\ otp = NoOtp

PermissionIdInputs == 1..(MaxPermissions + 1)

PermissionNext ==
    \/ \E path \in PermissionPaths, method \in Methods : PermissionCreate(path, method)
    \/ \E id \in PermissionIdInputs, path \in PermissionPaths \cup {NoPath},
          method \in Methods \cup {NoMethod}, others \in BOOLEAN :
             PermissionUpdate(id, path, method, others)
    \/ \E id \in PermissionIdInputs : PermissionSoftDelete(id)
    \/ \E id \in PermissionIdInputs : PermissionRestore(id)
    \/ \E id \in PermissionIdInputs : PermissionHardDelete(id)
    \/ \E ids \in SUBSET PermissionIdInputs : PermissionBulkSoftDelete(ids)

SpecPermission == PermissionInit /\ [][PermissionNext]_vars

\* C17: after any sequence of create, update, softDelete, bulkSoftDelete, restore and
\* hardDelete calls, no two non-deleted permissions have the same (path, method).
C17_PathMethodUnique ==
    \A a \in PermissionIds(permissions), b \in PermissionIds(permissions) :
        /\ permissions[a].deletedAt = NoDate
        /\ permissions[b].deletedAt = NoDate
        /\ permissions[a].path = permissions[b].path
        /\ permissions[a].method = permissions[b].method
        => a = b

\* a restore was refused because a non-deleted permission has taken the pair of the
\* deleted one
C17_Witness ==
    /\ lastCall.op = "restore"
    /\ lastCall.res = PermissionException("PermissionCouldNotRestore")
    /\ \E a \in lastCall.ids, b \in PermissionIds(permissions) :
          /\ a # b
          /\ permissions[a].deletedAt # NoDate
          /\ permissions[b].deletedAt = NoDate
          /\ permissions[a].path = permissions[b].path
          /\ permissions[a].method = permissions[b].method

----------------------------------------------------------------------------
(* RoleService and RoleRepository: the Role table is a sequence, a row's id is its
   index, and a row removed by hardDeleteRole leaves ErasedRole *)

MaxRoles == 1           \* roles created in one run

RoleNames == {"MANAGER", "STAFF", "ADMIN"}
ErasedRole == [name |-> "", isActive |-> FALSE, deletedAt |-> NoDate, permissions |-> {}]

\* the roles of the seed script; users 1 and 2 hold roles 1 and 2
SeededRoles ==
    <<[name |-> "ADMIN", isActive |-> TRUE, deletedAt |-> NoDate, permissions |-> {}],
      [name |-> "CLIENT", isActive |-> TRUE, deletedAt |-> NoDate, permissions |-> {}],
      [name |-> "SELLER", isActive |-> TRUE, deletedAt |-> NoDate, permissions |-> {}]>>

\* the exceptions of role.error and shared/error, by name
RoleException(name) == [type |-> "RoleException", code |-> name]
BadRequestException(message) == [type |-> "BadRequestException", code |-> message]

\* the role call returns: its result, whether the role it names was soft-deleted
\* when it was called, and whether a non-deleted role had that role's name
RoleReturn(op, ids, error) ==
    [op |-> op, ids |-> ids, res |-> error,
     wasDeleted |-> \E id \in ids : id \in DOMAIN roles /\ roles[id] # ErasedRole
                                    /\ roles[id].deletedAt # NoDate,
     clash |-> \E id \in ids, other \in DOMAIN roles :
                  /\ id \in DOMAIN roles /\ other # id
                  /\ roles[other] # ErasedRole
                  /\ roles[other].deletedAt = NoDate
                  /\ roles[other].name = roles[id].name]

\* no role is a system role
systemRoles_None == {}

\* RoleService.systemRoles, and baseRoles of verifyRole
systemRoles == {"ADMIN", "CLIENT", "SELLER"}

isSystemRole(roleName) == roleName \in systemRoles

\* RoleRepository.findOne: findUnique({ id, deletedAt: null }) finds a row
findOne(id) ==
    /\ id \in DOMAIN roles
    /\ roles[id] # ErasedRole
    /\ roles[id].deletedAt = NoDate

\* RoleRepository.findByName: the ids findFirst chooses from
findByName(name, excludeId, includeDeleted) ==
    {id \in DOMAIN roles :
        /\ roles[id] # ErasedRole
        /\ roles[id].name = name
        /\ excludeId # 0 => id # excludeId
        /\ includeDeleted \/ roles[id].deletedAt = NoDate}

\* RoleRepository.roleHasActiveUsers
roleHasActiveUsers(id) == \E u \in DOMAIN users : users[u].roleId = id

\* RoleService.verifyRole: the exception thrown, or NoError
verifyRole(roleId) ==
    IF ~findOne(roleId) THEN RoleException("NotFoundRecord")
    ELSE IF roles[roleId].name \in systemRoles
    THEN RoleException("ProhibitedActionOnBaseRole")
    ELSE NoError

\* a RoleService call is counted and leaves the other tables alone
roleCalled ==
    /\ calls < MaxCalls
    /\ calls' = calls + 1
    /\ UNCHANGED <<now, users, permissions, verificationCodes, guard, otp>>
    /\ UNCHANGED <<devices, refreshTokens, nextUuid, procs, faults, returned, rotatedBy, loggedOut>>

\* RoleService.create
RoleCreate(name, isActive) ==
    /\ Len(roles) < Len(SeededRoles) + MaxRoles
    /\ IF findByName(name, 0, TRUE) # {}
       THEN /\ lastCall' = RoleReturn("create", {}, RoleException("RoleAlreadyExists"))
            /\ UNCHANGED roles
       ELSE /\ roles' = Append(roles, [name |-> name, isActive |-> isActive,
                                       deletedAt |-> NoDate, permissions |-> {}])
            /\ lastCall' = RoleReturn("create", {Len(roles) + 1}, NoError)
    /\ roleCalled

\* RoleService.update, with RoleRepository.update; the catch turns every Error into
\* a BadRequestException with its message
RoleUpdate(id, name, isActive, permissionIds) ==
    /\ LET error ==
             IF verifyRole(id) # NoError THEN verifyRole(id)
             ELSE IF name # roles[id].name /\ findByName(name, id, FALSE) # {}
             THEN RoleException("RoleAlreadyExists")
             ELSE IF \E pid \in permissionIds : permissions[pid].deletedAt # NoDate
             THEN RoleException("Permission with id has been deleted")
             ELSE NoError
       IN  IF error # NoError
           THEN /\ lastCall' = RoleReturn("update", {id}, BadRequestException(error.code))
                /\ UNCHANGED roles
           ELSE /\ roles' = [roles EXCEPT ![id].name = name, ![id].isActive = isActive,
                                          ![id].permissions = permissionIds]
                /\ lastCall' = RoleReturn("update", {id}, NoError)
    /\ roleCalled

\* RoleService.softDelete: after its checks it calls roleRepository.softDelete,
\* which RoleRepository does not have
RoleSoftDelete(id) ==
    /\ LET error ==
             IF verifyRole(id) # NoError THEN verifyRole(id)
             ELSE IF roleHasActiveUsers(id) THEN RoleException("RoleHasActiveUsers")
             ELSE TypeError
       IN  lastCall' = RoleReturn("softDelete", {id}, error)
    /\ UNCHANGED roles
    /\ roleCalled

\* the checks of restoreRole before its write
restoreRoleChecks(id) ==
    IF ~findOne(id) THEN RoleException("RoleNotFound")
    ELSE IF roles[id].deletedAt = NoDate THEN RoleException("RoleIsNotDeleted")
    ELSE IF findByName(roles[id].name, id, FALSE) # {}
    THEN RoleException("RoleAlreadyExists")
    ELSE NoError

\* RoleService.restoreRole
RoleRestore(id) ==
    /\ lastCall' = RoleReturn("restoreRole", {id}, restoreRoleChecks(id))
    /\ roles' = IF restoreRoleChecks(id) # NoError THEN roles
                ELSE [roles EXCEPT ![id].deletedAt = NoDate]
    /\ roleCalled

\* RoleService.hardDeleteRole: its catch lets through three exceptions, not those of
\* verifyRole
RoleHardDelete(id) ==
    /\ LET error ==
             IF verifyRole(id) # NoError THEN RoleException("InternalDeleteRoleError")
             ELSE IF roleHasActiveUsers(id) THEN RoleException("RoleHasActiveUsers")
             ELSE NoError
       IN  /\ lastCall' = RoleReturn("hardDeleteRole", {id}, error)
           /\ roles' = IF error # NoError THEN roles ELSE [roles EXCEPT ![id] = ErasedRole]
    /\ roleCalled

\* RoleService.bulkSoftDeleteRoles
RoleBulkSoftDelete(ids) ==
    /\ LET validIds == {id \in ids : /\ findOne(id)
                                     /\ ~isSystemRole(roles[id].name)
                                     /\ ~roleHasActiveUsers(id)}
           error == IF ids = {} THEN RoleException("AtLeastOneRoleIdMustBeProvided")
                    ELSE IF validIds = {} THEN RoleException("RoleNotFound")
                    ELSE NoError
       IN  /\ lastCall' = RoleReturn("bulkSoftDeleteRoles", ids, error)
           /\ roles' = [id \in DOMAIN roles |->
                           IF error = NoError /\ id \in validIds
                           THEN [roles[id] EXCEPT !.deletedAt = now]
                           ELSE roles[id]]
    /\ roleCalled

\* RoleService.assignPermissionsToRole
RoleAssignPermissions(roleId, permissionIds) ==
    /\ IF ~findOne(roleId)
       THEN /\ lastCall' = RoleReturn("assignPermissionsToRole", {roleId},
                                      RoleException("RoleNotFound"))
            /\ UNCHANGED roles
       ELSE /\ roles' = [roles EXCEPT ![roleId].permissions = permissionIds]
            /\ lastCall' = RoleReturn("assignPermissionsToRole", {roleId}, NoError)
    /\ roleCalled

\* RoleService.toggleRoleStatus
RoleToggleStatus(id, isActive) ==
    /\ LET error == IF ~findOne(id) THEN RoleException("RoleNotFound")
                    ELSE IF isSystemRole(roles[id].name)
                    THEN RoleException("CannotModifySystemRole")
                    ELSE NoError
       IN  /\ lastCall' = RoleReturn("toggleRoleStatus", {id}, error)
           /\ roles' = IF error # NoError THEN roles
                       ELSE [roles EXCEPT ![id].isActive = isActive]
    /\ roleCalled

\* the seeded roles, and one permission to assign
RoleInit ==
    /\ now = 0
    /\ users = InitUsers
    /\ roles = SeededRoles
    /\ permissions = <<[path |-> <<"/", "users">>, method |-> "GET", deletedAt |-> NoDate]>>
    /\ devices = <<>>
    /\ refreshTokens = {}
    /\ verificationCodes = {}
    /\ nextUuid = 1
    /\ procs = [p \in Procs |-> Idle]
    /\ lastCall = NoCall
    /\ calls = 0
    /\ faults = 0
    /\ returned = {}
    /\ rotatedBy = {}
    /\ loggedOut = {}
    /\ guard = NoGuard
    /\ otp = NoOtp

RoleIdInputs == 1..(Len(SeededRoles) + MaxRoles + 1)

RoleNext ==
    \/ calls < MaxCalls /\
          \E name \in RoleNames, isActive \in BOOLEAN : RoleCreate(name, isActive)
    \/ calls < MaxCalls /\
          \E id \in RoleIdInputs, name \in RoleNames, isActive \in BOOLEAN,
             permissionIds \in SUBSET DOMAIN permissions :
                RoleUpdate(id, name, isActive, permissionIds)
    \/ calls < MaxCalls /\ \E id \in RoleIdInputs : RoleSoftDelete(id)
    \/ calls < MaxCalls /\ \E id \in RoleIdInputs : RoleRestore(id)
    \/ calls < MaxCalls /\ \E id \in RoleIdInputs : RoleHardDelete(id)
    \/ calls < MaxCalls /\ \E ids \in SUBSET RoleIdInputs : RoleBulkSoftDelete(ids)
    \/ calls < MaxCalls /\
          \E id \in RoleIdInputs, permissionIds \in SUBSET DOMAIN permissions :
             RoleAssignPermissions(id, permissionIds)
    \/ calls < MaxCalls /\
          \E id \in RoleIdInputs, isActive \in BOOLEAN : RoleToggleStatus(id, isActive)
    \/ Tick

SpecRole == RoleInit /\ [][RoleNext]_vars

\* C18: restoreRole on a soft-deleted role whose name no non-deleted role has
\* succeeds and leaves the role non-deleted; restoreRole on a role that is not
\* deleted fails with RoleIsNotDeleted.
C18_RestoreRole ==
    lastCall.op = "restoreRole" =>
        \A id \in lastCall.ids :
            /\ lastCall.wasDeleted /\ ~lastCall.clash =>
                  lastCall.res = NoError /\ roles[id].deletedAt = NoDate
            /\ findOne(id) /\ ~lastCall.wasDeleted =>
                  lastCall.res = RoleException("RoleIsNotDeleted")

\* the role with this id is named ADMIN, CLIENT or SELLER
NamedAsSystemRole(id) ==
    id \in DOMAIN roles /\ roles[id].name \in {"ADMIN", "CLIENT", "SELLER"}

----------------------------------------------------------------------------
(* GoogleService.googleCallback, beside login and refreshToken *)

NoEmail == ""           \* Google's user info has no email
\* the emails Google reports: one without a user yet, or none
GoogleEmails == {"g@x", NoEmail}
\* the state getAuthorizationUrl put in the URL, decoded
GoogleStates == [userAgent : UserAgents, ip : Ips]

\* what oauth2Client.getToken or the missing email throws
GoogleError(message) == [type |-> "Error", code |-> message]

\* one step: exchange the code, read the user info, find or create the user, create
\* the device, generateAccessAndRefreshToken
GoogleCallback(p, exchanged, email, state) ==
    /\ CanStart(p)
    /\ LET error == IF ~exchanged THEN GoogleError("invalid_grant")
                    ELSE IF email = NoEmail
                    THEN GoogleError("Failed to get user info from google")
                    ELSE NoError
           found == findUniqueUser(email)
           table == IF found # 0 THEN users
                    ELSE createUser(users, [email |-> email, password |-> "uuidv4",
                                            roleId |-> getClientRoleId,
                                            totpSecret |-> NoSecret])
           id == IF found # 0 THEN found ELSE Len(users) + 1
           deviceId == Len(devices) + 1
           tokens == signTokens([userId |-> id, deviceId |-> deviceId,
                                 roleId |-> table[id].roleId,
                                 roleName |-> roles[table[id].roleId].name], nextUuid)
       IN  IF error # NoError
           THEN /\ lastCall' = [NoCall EXCEPT !.op = "googleCallback", !.res = error]
                /\ UNCHANGED <<users, devices, refreshTokens, nextUuid, returned>>
           ELSE /\ users' = table
                /\ devices' = createDevice([userId |-> id, userAgent |-> state.userAgent,
                                            ip |-> state.ip])
                /\ refreshTokens' = createRefreshToken(refreshTokens,
                                        refreshTokenRow(tokens, id, deviceId))
                /\ nextUuid' = nextUuid + 1
                /\ returned' = returned \cup {tokens.refreshToken}
                /\ lastCall' = [NoCall EXCEPT !.op = "googleCallback", !.out = tokens]
    /\ calls' = calls + 1
    /\ UNCHANGED <<now, procs, faults, rotatedBy, loggedOut, roles, permissions>>
    /\ UNCHANGED otherVars

\* the calls that hand out tokens, from concurrent callers
IssueNext ==
    \/ \E p \in Procs : CanStart(p) /\
          \E password \in Passwords, userAgent \in UserAgents, ip \in Ips :
             Login(p, "a@x", password, NoTotp, NoCode, userAgent, ip)
    \/ \E p \in Procs : CanStart(p) /\
          \E refreshToken \in Presentable, userAgent \in UserAgents, ip \in Ips :
             RefreshTokenVerify(p, refreshToken, userAgent, ip)
    \/ \E p \in Procs : RefreshTokenLookup(p)
    \/ \E p \in Procs, stored \in BOOLEAN : RefreshTokenUpdateDevice(p, stored)
    \/ \E p \in Procs, stored \in BOOLEAN : RefreshTokenDelete(p, stored)
    \/ \E p \in Procs, stored \in BOOLEAN : RefreshTokenGenerate(p, stored)
    \/ \E p \in Procs : RefreshTokenReturn(p)
    \/ \E p \in Procs : CanStart(p) /\
          \E exchanged \in BOOLEAN, email \in GoogleEmails, state \in GoogleStates :
             GoogleCallback(p, exchanged, email, state)
    \/ Tick

SpecIssue == Init /\ [][IssueNext]_vars

\* a call that hands out tokens has just returned
PairReturned ==
    /\ lastCall.op \in {"login", "refreshToken", "googleCallback"}
    /\ lastCall.res = NoError

\* C20: when login, refreshToken or the OAuth callback returns a token pair, a
\* RefreshToken row exists whose token is the returned refresh token, whose expiresAt
\* is that token's exp, and whose userId and deviceId are those of the returned
\* access token.
C20_ReturnedPairPersisted ==
    PairReturned =>
        /\ lastCall.out.refreshToken # NoToken
        /\ \E row \in refreshTokens :
              /\ row.token = lastCall.out.refreshToken
              /\ row.expiresAt = lastCall.out.refreshToken.exp
              /\ row.userId = lastCall.out.accessToken.userId
              /\ row.deviceId = lastCall.out.accessToken.deviceId

\* the callback created a user and returned its pair, after a rotation returned one
C20_Witness ==
    /\ PairReturned
    /\ lastCall.op = "googleCallback"
    /\ Len(users) = 3
    /\ rotatedBy # {}
    /\ lastCall.out.refreshToken \in {row.token : row \in refreshTokens}

----------------------------------------------------------------------------
(* Claims about the order of a rotation's writes and its answer, checked under Spec *)

\* the refreshToken call of caller p is answered in this step
RefreshAnswered(p) == procs[p].pc = "rotate" /\ procs'[p].pc = "idle"

\* the refreshToken call that has just returned handed out a new pair
RefreshHandedPair == lastCall.op = "refreshToken" /\ lastCall.out # NoTokens

\* C21: within one refreshToken call the new pair is returned only after both the
\* device update and the deletion of the old row have completed successfully; when
\* either of them fails the call returns no tokens.
C21_PairAfterBothWrites ==
    /\ [][\A p \in Procs : RefreshAnswered(p) =>
            /\ lastCall'.out # NoTokens =>
                 /\ {"udpateDevice", "deleteRefreshToken"} \cap procs[p].pending = {}
                 /\ {"udpateDevice", "deleteRefreshToken"} \cap procs[p].failed = {}
            /\ {"udpateDevice", "deleteRefreshToken"} \cap procs[p].failed # {} =>
                 lastCall'.out = NoTokens]_vars
    /\ [](RefreshHandedPair =>
            /\ findUniqueRefreshTokenIncludeUserRole(lastCall.tok) = NoRow
            /\ lastCall.touched # {})

C21_Witness ==
    /\ RefreshHandedPair
    /\ findUniqueRefreshTokenIncludeUserRole(lastCall.tok) = NoRow
    /\ lastCall.touched # {}

----------------------------------------------------------------------------
(* AuthService.login when the storage layer rejects createRefreshToken *)

\* catch (error) of login: a unique-constraint error is EmailAlreadyExists, anything
\* else is rethrown as it is
loginCatch(error) ==
    IF error.type = "PrismaClientKnownRequestError" /\ error.code = "P2002"
    THEN [type |-> "UnprocessableEntityException", code |-> "Error.EmailAlreadyExists"]
    ELSE error

\* login whose checks pass and whose createDevice is stored, but whose
\* createRefreshToken inside generateAccessAndRefreshToken is rejected: the rejection
\* leaves the try block through the catch, after the device row was written
LoginCreateRefreshTokenRejected(p, email, password, totpCode, code, userAgent, ip) ==
    /\ CanStart(p)
    /\ faults < MaxFaults
    /\ loginChecks(email, password, totpCode, code) = NoError
    /\ devices' = createDevice([userId |-> findUniqueUser(email), userAgent |-> userAgent,
                                ip |-> ip])
    /\ nextUuid' = nextUuid + 1
    /\ faults' = faults + 1
    /\ lastCall' = LoginReturn(email, password, totpCode, code, loginCatch(StorageFailure),
                               NoTokens)
    /\ calls' = calls + 1
    /\ UNCHANGED <<now, procs, refreshTokens, returned, rotatedBy, loggedOut>>
    /\ UNCHANGED rbacVars
    /\ UNCHANGED otherVars

\* the user agents of the callers whose device rows are compared
FrameUserAgents == {"ua1", "ua2"}

\* login and refreshToken calls of two concurrent callers, any write of which the
\* storage layer may reject
FrameNext ==
    \/ \E p \in Procs, email \in {"a@x", "nobody@x"}, password \in Passwords,
          userAgent \in FrameUserAgents, ip \in Ips :
            Login(p, email, password, NoTotp, NoCode, userAgent, ip)
    \/ \E p \in Procs, userAgent \in FrameUserAgents, ip \in Ips :
            LoginCreateRefreshTokenRejected(p, "a@x", "pw1", NoTotp, NoCode, userAgent, ip)
    \/ \E p \in Procs, refreshToken \in returned, userAgent \in FrameUserAgents, ip \in Ips :
            RefreshTokenVerify(p, refreshToken, userAgent, ip)
    \/ \E p \in Procs : RefreshTokenLookup(p)
    \/ \E p \in Procs, stored \in BOOLEAN : RefreshTokenUpdateDevice(p, stored)
    \/ \E p \in Procs, stored \in BOOLEAN : RefreshTokenDelete(p, stored)
    \/ \E p \in Procs, stored \in BOOLEAN : RefreshTokenGenerate(p, stored)
    \/ \E p \in Procs : RefreshTokenReturn(p)
    \/ Tick

SpecFrame == Init /\ [][FrameNext]_vars

\* the row stored for a refresh token
RowOf(token) == CHOOSE r \in refreshTokens : r.token = token

\* the step is a login call that hands out a pair: one Device row is appended, every
\* earlier row is kept, and the new RefreshToken row is bound to the new device
LoginInsertsOneDevice ==
    (lastCall'.op = "login" /\ lastCall'.out # NoTokens) =>
        /\ Len(devices') = Len(devices) + 1
        /\ SubSeq(devices', 1, Len(devices)) = devices
        /\ devices'[Len(devices')].isActive
        /\ refreshTokens' \ refreshTokens =
              {[token |-> lastCall'.out.refreshToken,
                userId |-> devices'[Len(devices')].userId,
                deviceId |-> Len(devices'),
                expiresAt |-> lastCall'.out.refreshToken.exp]}

\* the step is a login call that fails: no Device row and no RefreshToken row is written
FailedLoginInsertsNothing ==
    (lastCall'.op = "login" /\ lastCall'.out = NoTokens) =>
        devices' = devices /\ refreshTokens' = refreshTokens

\* no step of a refreshToken call inserts a Device row; the lookup takes the device of
\* the presented token's row, whose userAgent, ip and lastActive the update sets, and
\* to which the row of the new token is bound
RefreshKeepsDevice ==
    /\ lastCall'.op # "login" => Len(devices') = Len(devices)
    /\ (lastCall'.op # "login" /\ devices' # devices) =>
          \E p \in Procs :
              /\ procs[p].pc = "rotate"
              /\ procs'[p].pending = procs[p].pending \ {"udpateDevice"}
              /\ devices' = [devices EXCEPT ![procs[p].dev] =
                                [@ EXCEPT !.userAgent = procs[p].userAgent,
                                          !.ip = procs[p].ip, !.lastActive = now]]
    /\ \A p \in Procs :
        /\ (procs[p].pc = "lookup" /\ procs'[p].pc = "rotate") =>
              procs'[p].dev = RowOf(procs[p].tok).deviceId
        /\ (RefreshAnswered(p) /\ lastCall'.out # NoTokens) =>
              /\ lastCall'.touched = {procs[p].dev}
              /\ RowOf(lastCall'.out.refreshToken).deviceId = procs[p].dev
              /\ lastCall'.out.accessToken.deviceId = procs[p].dev

\* C22: every successful login inserts exactly one new Device row and never reuses
\* one; a successful refreshToken inserts no Device row, updates userAgent, ip and
\* lastActive of the device bound to the presented token and binds the new refresh
\* token to that device; a failed login inserts no Device and no RefreshToken row.
C22_DeviceRows ==
    [][LoginInsertsOneDevice /\ RefreshKeepsDevice /\ FailedLoginInsertsNothing]_vars

\* the parts of C22 about successful calls
C22_SuccessfulCalls == [][LoginInsertsOneDevice /\ RefreshKeepsDevice]_vars

----------------------------------------------------------------------------
(* Claims about what logout writes, checked under Spec *)

\* the steps of a logout call presenting T that goes on to succeed: the delete removes
\* the row of T and no other, and touches no device; the update marks the device of
\* that row inactive and changes nothing else of any device or any row
LogoutWritesOnlyItsOwn ==
    \A p \in Procs :
        /\ (procs[p].pc = "logoutDelete" /\ procs'[p].pc = "logoutDevice") =>
              /\ refreshTokens' = refreshTokens \ {RowOf(procs[p].tok)}
              /\ RowOf(procs[p].tok) \in refreshTokens
              /\ procs'[p].dev = RowOf(procs[p].tok).deviceId
              /\ devices' = devices
        /\ (procs[p].pc = "logoutDevice" /\ procs'[p].pc = "idle") =>
              /\ lastCall'.res = NoError
              /\ refreshTokens' = refreshTokens
              /\ DOMAIN devices' = DOMAIN devices
              /\ \A d \in DOMAIN devices :
                    devices'[d] = IF d = procs[p].dev
                                  THEN [devices[d] EXCEPT !.isActive = FALSE]
                                  ELSE devices[d]
        /\ (procs[p].op = "logout" /\ procs[p].pc # "idle") =>
              /\ users' = users
              /\ verificationCodes' = verificationCodes

\* the refreshToken call that has just returned was started after a logout call
\* presenting the same token had succeeded
RefreshOfLoggedOut == lastCall.op = "refreshToken" /\ lastCall.afterLogout

\* C23 as stated: a successful logout presenting T deletes exactly the row of T and
\* sets isActive to false on exactly the device bound to T, leaving every other row
\* unchanged; afterwards a refreshToken call presenting T fails with
\* RefreshTokenRevoked.
C23_LogoutThenRevoked ==
    /\ [][LogoutWritesOnlyItsOwn]_vars
    /\ [](RefreshOfLoggedOut =>
            lastCall.res = RefreshTokenRevokedException /\ lastCall.out = NoTokens)

\* C23 amended: the same writes; afterwards a refreshToken call presenting T returns
\* no tokens and fails with RefreshTokenRevoked when T is unexpired as the call
\* verifies it, with the "Token has expired" Unauthorized of the verification
\* otherwise.
C23_LogoutThenUnauthorized ==
    /\ [][LogoutWritesOnlyItsOwn]_vars
    /\ [](RefreshOfLoggedOut =>
            /\ lastCall.out = NoTokens
            /\ lastCall.res \in {RefreshTokenRevokedException, TokenExpired}
            /\ lastCall.verified <=> lastCall.res = RefreshTokenRevokedException
            /\ lastCall.res = TokenExpired => now >= lastCall.tok.exp)

\* the device of the logged-out token is inactive and the refreshToken call presenting
\* that token has just failed with RefreshTokenRevoked
C23_Witness ==
    /\ RefreshOfLoggedOut
    /\ lastCall.res = RefreshTokenRevokedException
    /\ \E d \in DOMAIN devices : ~devices[d].isActive

----------------------------------------------------------------------------
(* AuthService.setupTwoFactorAuth *)

TOTPAlreadyEnabledException == [type |-> "ConflictException", code |-> "Error.TOTPAlreadyEnabled"]

\* new OTPAuth.Secret(): the random secrets generateTOTPService can come up with
Secrets == {"SA", "SB", "SC"}

\* the ids the access token of a caller can carry: the two users and a removed one
SetupUserIds == {1, 2, 3}

\* shareUserRepository.findUnique({ id: userId })
findUniqueUserById(userId) == IF userId \in DOMAIN users THEN userId ELSE 0

\* authRepository.updateUser({ id: userId }, { totpSecret: secret })
updateUserTotpSecret(table, userId, secret) ==
    [table EXCEPT ![userId] = [@ EXCEPT !.totpSecret = secret]]

\* a setupTwoFactorAuth call: where it is, the user it is for, the secret it generated
\* and, once it has returned, its result
SetupCall(pc, userId, secret, error) ==
    [pc |-> pc, op |-> "setupTwoFactorAuth", userId |-> userId, secret |-> secret,
     error |-> error]

\* 1. findUnique, the two checks, 2. generateTOTPService: up to the awaited updateUser
SetupFindUnique(p, userId, secret) ==
    /\ procs[p].pc = "idle"
    /\ LET user == findUniqueUserById(userId)
       IN  procs' = [procs EXCEPT ![p] =
               IF user = 0 THEN SetupCall("done", userId, NoSecret, EmailNotExistsException)
               ELSE IF users[user].totpSecret # NoSecret
               THEN SetupCall("done", userId, NoSecret, TOTPAlreadyEnabledException)
               ELSE SetupCall("updateUser", userId, secret, NoError)]
    /\ UNCHANGED <<now, users, roles, permissions, devices, refreshTokens, nextUuid,
                   lastCall, calls, faults, returned, rotatedBy, loggedOut>>
    /\ UNCHANGED otherVars

\* 3. updateUser({ id: userId }, { totpSecret: secret }), 4. return { secret, uri }
SetupUpdateUser(p) ==
    /\ procs[p].pc = "updateUser"
    /\ users' = updateUserTotpSecret(users, procs[p].userId, procs[p].secret)
    /\ procs' = [procs EXCEPT ![p] = [@ EXCEPT !.pc = "done"]]
    /\ UNCHANGED <<now, roles, permissions, devices, refreshTokens, nextUuid,
                   lastCall, calls, faults, returned, rotatedBy, loggedOut>>
    /\ UNCHANGED otherVars

\* the callers of the 2FA setup: each makes one call, and the calls interleave
SetupProcs == {1, 2}

SetupNext ==
    \/ \E p \in SetupProcs, userId \in SetupUserIds, secret \in Secrets :
            SetupFindUnique(p, userId, secret)
    \/ \E p \in SetupProcs : SetupUpdateUser(p)
    \/ Tick

SpecSetup == Init /\ [][SetupNext]_vars

\* the setupTwoFactorAuth calls for user u that have returned, and those that succeeded
SetupReturned(u) == {p \in SetupProcs : procs[p].pc = "done" /\ procs[p].userId = u}
SetupSucceeded(u) == {p \in SetupReturned(u) : procs[p].error = NoError}

\* C24: once a user's TOTP secret is set, setupTwoFactorAuth never overwrites it: in
\* every interleaving of setupTwoFactorAuth calls for the same user at most one
\* succeeds, the others fail with TOTPAlreadyEnabled, and the stored secret is the one
\* returned to the caller that succeeded.
C24_SecretSetOnce ==
    /\ [][\A u \in DOMAIN users :
            users[u].totpSecret # NoSecret => users'[u].totpSecret = users[u].totpSecret]_vars
    /\ [](\A u \in DOMAIN users :
            /\ Cardinality(SetupSucceeded(u)) <= 1
            /\ \A p \in SetupSucceeded(u) :
                 /\ users[u].totpSecret = procs[p].secret
                 /\ \A q \in SetupReturned(u) \ {p} :
                      procs[q].error = TOTPAlreadyEnabledException)

\* the calls of C24 one after the other: a call that begins after a secret was stored
\* fails with TOTPAlreadyEnabled and leaves the secret as it is
C24_SequentialSetup ==
    [][\A p \in SetupProcs :
        (procs[p].pc = "idle" /\ procs'[p].pc # "idle" /\ procs'[p].userId \in DOMAIN users
            /\ users[procs'[p].userId].totpSecret # NoSecret) =>
        procs'[p] = SetupCall("done", procs'[p].userId, NoSecret,
                              TOTPAlreadyEnabledException)]_vars

----------------------------------------------------------------------------
(* Claims about a refreshToken call that fails, checked under Spec *)

\* the rows stored for a refresh token
RowsOf(token) == {r \in refreshTokens : r.token = token}

\* the refreshToken call of caller p is answered in this step without tokens
RefreshFailed(p) == RefreshAnswered(p) /\ lastCall'.out = NoTokens

\* C25: a refreshToken call that fails leaves the session store as it was: no new
\* RefreshToken row is persisted and the row of the presented token is neither deleted
\* nor replaced, in every interleaving with other refreshToken and logout calls.
C25_FailedRefreshWritesNothing ==
    [][\A p \in Procs :
        /\ (procs[p].op = "refreshToken" /\ procs[p].pc = "lookup"
              /\ procs'[p].pc = "idle") =>
              refreshTokens' = refreshTokens /\ devices' = devices
        /\ RefreshFailed(p) =>
              /\ RowsOf(procs[p].newTokens.refreshToken) = {}
              /\ "deleteRefreshToken" \in procs[p].failed]_vars

\* C25 where the storage layer rejects no write: the call that loses the race for one
\* token must not have stored a row
C25_FailedRefreshNoFault ==
    [][\A p \in Procs :
        (RefreshFailed(p) /\ faults = 0) =>
            RowsOf(procs[p].newTokens.refreshToken) = {}]_vars

----------------------------------------------------------------------------
(* Claims about the rows of a device, checked under Spec *)

\* the RefreshToken rows bound to a device
RowsOfDevice(d) == {r \in refreshTokens : r.deviceId = d}

\* no AuthService call is in flight
Quiescent == \A p \in Procs : procs[p].pc = "idle"

\* C26: in every reachable state, under any interleaving of login, refreshToken and
\* logout calls, each Device has at most one stored RefreshToken row, and a device that
\* logout marked inactive has none. Read at the states where no call is in flight: in
\* the middle of a rotation the old and the new row of a device are both stored.
C26_OneRowPerDevice ==
    Quiescent =>
        \A d \in DOMAIN devices :
            /\ Cardinality(RowsOfDevice(d)) <= 1
            /\ ~devices[d].isActive => RowsOfDevice(d) = {}

\* C26 where the storage layer rejects no write
C26_OneRowPerDeviceNoFault == faults = 0 => C26_OneRowPerDevice

----------------------------------------------------------------------------
(* The second factor on the entry points that issue a device and a pair *)

\* the emails Google reports: of the user with a TOTP secret, of no user yet, or none
SecondFactorEmails == {"b@x", "g@x", NoEmail}

\* POST /auth/login and GET /auth/google/callback, after sendOTP({ b@x, LOGIN })
SecondFactorNext ==
    \/ \E p \in Procs : CanStart(p) /\
          \E email \in {"a@x", "b@x"}, password \in Passwords,
             totpCode \in LoginTotpInputs, code \in LoginCodeInputs,
             userAgent \in UserAgents, ip \in Ips :
                LoginRequest(p, email, password, totpCode, code, userAgent, ip)
    \/ \E p \in Procs : CanStart(p) /\
          \E exchanged \in BOOLEAN, email \in SecondFactorEmails, state \in GoogleStates :
             GoogleCallback(p, exchanged, email, state)
    \/ Tick

SpecSecondFactor == LoginInit /\ [][SecondFactorNext]_vars

\* the call that has just returned issued a device and a pair to a user who has a
\* TOTP secret
IssuedToTotpUser ==
    /\ lastCall.op \in {"login", "googleCallback"}
    /\ lastCall.out # NoTokens
    /\ users[lastCall.out.accessToken.userId].totpSecret # NoSecret

\* the login call that has just returned presented a valid TOTP code of the user's
\* secret, or a stored, unexpired LOGIN verification code of the user's email
SecondFactorValidated ==
    LET id == lastCall.out.accessToken.userId
    IN  \/ lastCall.totpCode # NoTotp /\ verifyTOTP(lastCall.totpCode, users[id].totpSecret)
        \/ /\ lastCall.code # NoCode
           /\ validateVerificationCode(users[id].email, lastCall.code, "LOGIN") = NoError

\* C27: for a user who has a TOTP secret, a new device and token pair are issued only
\* after a second factor was validated in that same call (a valid TOTP code, or a
\* valid unexpired LOGIN verification code), on every issuing entry point:
\* AuthService.login and GoogleService.googleCallback.
C27_SecondFactorBeforeIssue ==
    IssuedToTotpUser => lastCall.op = "login" /\ SecondFactorValidated

\* C27 for AuthService.login alone
C27_SecondFactorBeforeLogin ==
    IssuedToTotpUser /\ lastCall.op = "login" => SecondFactorValidated

----------------------------------------------------------------------------
(* Claims about a declared strategy without a guard, checked under SpecGuard *)

\* the strategies of the finished request that have no guard in authTypeGuardMap
Guardless == {i \in DOMAIN guard.authTypes : guard.authTypes[i] \notin authTypeGuardMap}

\* the request declared a strategy that has no guard, and the guard has decided
DeclaresGuardless == GuardDone /\ Guardless # {}

\* a declared strategy that has a guard was evaluated and let the request pass
OtherStrategyPassed ==
    \E i \in DOMAIN guard.outcomes : i \notin Guardless /\ guard.outcomes[i] = Pass

\* under OR the guardless strategy counts as failed: the request passes only if
\* another declared strategy succeeds, and is rejected otherwise
GuardlessFailsUnderOr ==
    /\ \A i \in Guardless \cap DOMAIN guard.outcomes : ~guard.outcomes[i].ok
    /\ guard.result.ok => OtherStrategyPassed
    /\ ~guard.result.ok => guard.result.error # NoError

\* C28 as stated: a declared strategy that has no registered guard never lets a
\* request pass: under AND the request is rejected with Unauthorized, and under OR
\* that strategy counts as failed, so the request passes only if another declared
\* strategy succeeds.
C28_GuardlessNeverPasses ==
    DeclaresGuardless =>
        /\ guard.condition = "and" =>
              ~guard.result.ok /\ guard.result.error.type = "UnauthorizedException"
        /\ guard.condition = "or" => GuardlessFailsUnderOr

\* C28 amended: under AND the request is rejected, with Unauthorized, or with the
\* Forbidden of a Bearer strategy declared before the guardless one, when that
\* strategy's permission check has already rejected the request; under OR as stated.
C28_GuardlessRejects ==
    DeclaresGuardless =>
        /\ guard.condition = "and" =>
              /\ ~guard.result.ok
              /\ \/ guard.result.error.type = "UnauthorizedException"
                 \/ /\ guard.result = Throws(Forbidden)
                    /\ guard.authTypes[Len(guard.outcomes)] = "Bearer"
                    /\ \A i \in Guardless : i > Len(guard.outcomes)
        /\ guard.condition = "or" => GuardlessFailsUnderOr

\* ApiKey was declared after None under AND: None passed, ApiKey was reached and the
\* request was rejected with the generic Unauthorized
C28_Witness ==
    /\ DeclaresGuardless
    /\ guard.condition = "and"
    /\ guard.authTypes = <<"None", "ApiKey">>
    /\ guard.outcomes = <<Pass, Throws(TypeError)>>
    /\ guard.result = Throws(GenericUnauthorized)

----------------------------------------------------------------------------
(* Claims about the Bearer strategy and the session tables, checked under SpecKinds *)

\* the guarded request carries a token made by signAccessToken
BearerOfAccessToken == guard.pc # "idle" /\ guard.header[2].secret = AccessTokenSecret

\* the session the access token of the request was issued in has been logged out: its
\* device is inactive; or rotated: the pair's refresh token was replaced
SessionLoggedOut == ~devices[guard.header[2].deviceId].isActive
SessionRotated ==
    \E x \in rotatedBy : x[1].uuid = guard.header[2].uuid

\* C29: the decision of the Bearer strategy for an access token does not depend on the
\* RefreshToken or Device tables: whether or not the session was logged out or rotated,
\* the token is verified by its signature and its own expiry alone and the request
\* passes exactly when the token's role holds the permission, so an access token
\* issued before logout is still accepted until it expires; and no write to the two
\* tables changes a decision under way.
C29_DecisionIgnoresSession ==
    /\ [][(BearerOfAccessToken /\ guard.pc = "verify" /\ guard'.pc # "verify") =>
            IF now < HeaderToken.exp
            THEN guard'.pc = "permission" /\ guard'.user = HeaderToken
            ELSE guard'.pc = "done" /\ guard'.result = Throws(InvalidAccessToken)]_vars
    /\ [][(BearerOfAccessToken /\ guard.pc = "permission" /\ guard'.pc # "permission") =>
            /\ guard'.pc = "done"
            /\ guard'.result = IF Granted(HeaderToken.roleId, guard.path, guard.method)
                               THEN Pass ELSE Throws(Forbidden)]_vars
    /\ [][(devices' # devices \/ refreshTokens' # refreshTokens) => guard' = guard]_vars

\* a request carrying the access token of a session was let through after that
\* session had been logged out
C29_Witness ==
    /\ BearerOfAccessToken
    /\ GuardDone
    /\ guard.result = Pass
    /\ SessionLoggedOut
    /\ HeaderToken.uuid \in {t.uuid : t \in loggedOut}
    /\ RowsOfDevice(HeaderToken.deviceId) = {}

\* and another after the pair it came with had been rotated
C29_AcceptedAfterRotation ==
    BearerOfAccessToken /\ GuardDone /\ guard.result = Pass /\ SessionRotated

----------------------------------------------------------------------------
(* A user's role is changed between the calls of a session *)

\* authRepository.updateUser({ id }, { roleId })
updateUserRole(table, id, roleId) == [table EXCEPT ![id] = [@ EXCEPT !.roleId = roleId]]

\* an administrator gives user id another role
ChangeUserRole(id, roleId) ==
    /\ users[id].roleId # roleId
    /\ users' = updateUserRole(users, id, roleId)
    /\ lastCall' = NoCall
    /\ UNCHANGED <<now, roles, permissions>>
    /\ UNCHANGED sessionVars
    /\ UNCHANGED otherVars

\* a caller logs in as a@x and rotates while the role of a@x is changed
RoleChangeNext ==
    \/ /\ CanStart(1)
       /\ \E userAgent \in UserAgents, ip \in Ips :
             Login(1, "a@x", "pw1", NoTotp, NoCode, userAgent, ip)
    \/ /\ CanStart(1)
       /\ \E refreshToken \in returned, userAgent \in UserAgents, ip \in Ips :
             RefreshTokenVerify(1, refreshToken, userAgent, ip)
    \/ RefreshTokenLookup(1)
    \/ \E stored \in BOOLEAN : RefreshTokenUpdateDevice(1, stored)
    \/ \E stored \in BOOLEAN : RefreshTokenDelete(1, stored)
    \/ \E stored \in BOOLEAN : RefreshTokenGenerate(1, stored)
    \/ RefreshTokenReturn(1)
    \/ \E roleId \in DOMAIN roles : ChangeUserRole(1, roleId)
    \/ Tick

SpecRoleChange == Init /\ [][RoleChangeNext]_vars

\* C30: the access token issued by refreshToken carries the roleId and roleName of
\* the user's role as stored when the refresh token row is looked up, not those in
\* force at login: after the user's role is changed, the next successful refresh
\* yields an access token with the new role.
C30_RoleAsLookedUp ==
    [][\A p \in Procs :
        /\ (procs[p].pc = "lookup" /\ procs'[p].pc = "rotate") =>
              LET accessToken == procs'[p].newTokens.accessToken
                  userId == RowOf(procs[p].tok).userId
              IN  /\ accessToken.userId = userId
                  /\ accessToken.roleId = users[userId].roleId
                  /\ accessToken.roleName = roles[users[userId].roleId].name
        /\ (procs[p].pc = "rotate" /\ procs'[p].pc = "rotate") =>
              procs'[p].newTokens = procs[p].newTokens
        /\ (RefreshAnswered(p) /\ lastCall'.out # NoTokens) =>
              lastCall'.out = procs[p].newTokens]_vars

\* a@x logged in as ADMIN, the role was changed to CLIENT, and the refreshToken call
\* that has just returned handed out an access token of CLIENT
C30_Witness ==
    /\ RefreshHandedPair
    /\ users[1].roleId = 2
    /\ lastCall.out.accessToken.roleId = 2
    /\ lastCall.out.accessToken.roleName = "CLIENT"
    /\ InitUsers[1].roleId = 1

====
